---- MODULE Spec2Model ----
(***************************************************************************)
(* MPEG-2 Transport Stream parser: the transport packet header, the        *)
(* adaptation field, the PES packet header and the PES assembler, driven   *)
(* by the packet loop of TS_parser.cpp.                                    *)
(*                                                                         *)
(* A frame is a sequence of 188 bytes, frame[i + 1] being byte i.  A       *)
(* pointer into the frame is a record [null, off]; a read past the end of  *)
(* the frame yields a byte the environment chooses (junk).  64-bit         *)
(* unsigned values are four 16-bit limbs, least significant first, so that *)
(* 33-bit time stamps and the 42-bit clock keep their width.               *)
(***************************************************************************)
EXTENDS Integers, Sequences, FiniteSets

\* ------------------------------------------------------------------------
\* Program constants
\* ------------------------------------------------------------------------
TS_PacketLength == 188
TS_HeaderLength == 4
PES_HeaderLength == 6
NOT_VALID == -1
AUDIO_PID == 136
MinBufferSize == 1024

\* eResult of xPES_Assembler, and the value of `result' when AbsorbPacket
\* was not called in the iteration.
UnexpectedPID == "UnexpectedPID"
StreamPackedLost == "StreamPackedLost"
AssemblingStarted == "AssemblingStarted"
AssemblingContinue == "AssemblingContinue"
AssemblingFinished == "AssemblingFinished"
NotCalled == "NotCalled"

\* ------------------------------------------------------------------------
\* Bounds of the model
\* ------------------------------------------------------------------------
MaxPackets == 3

\* ------------------------------------------------------------------------
\* Bit operations on naturals, as C's & | << >> on unsigned operands
\* ------------------------------------------------------------------------
\* a & b bit by bit
RECURSIVE BitAndBits(_, _)
BitAndBits(a, b) ==
  IF a = 0 \/ b = 0 THEN 0
  ELSE (a % 2) * (b % 2) + 2 * BitAndBits(a \div 2, b \div 2)

\* a & b for 4-bit a and b, tabulated: entry a * 16 + b + 1
NibbleAnd == [i \in 1..256 |-> BitAndBits((i - 1) \div 16, (i - 1) % 16)] \o <<>>

\* a & b, four bits at a time
RECURSIVE BitAnd(_, _)
BitAnd(a, b) ==
  IF a = 0 \/ b = 0 THEN 0
  ELSE NibbleAnd[(a % 16) * 16 + (b % 16) + 1] + 16 * BitAnd(a \div 16, b \div 16)

\* a | b: the bits of a and of b, those in both counted once
BitOr(a, b) == a + b - BitAnd(a, b)

ShiftLeft(a, n) == a * 2^n

ShiftRight(a, n) == a \div 2^n

\* ------------------------------------------------------------------------
\* uint64_t as four 16-bit limbs <<l0, l1, l2, l3>>, value = sum l_i * 2^(16 i)
\* ------------------------------------------------------------------------
LimbBase == 2^16

U64Limb(x, j) == IF j \in 1..4 THEN x[j] ELSE 0

\* (uint64_t)n for 0 <= n < 2^31
U64(n) == <<n % LimbBase, n \div LimbBase, 0, 0>>

\* x << k on uint64_t, 0 <= k < 64 (bits shifted past bit 63 are lost)
U64ShiftLeft(x, k) ==
  LET q == k \div 16
      r == k % 16
      limb(i) == ((U64Limb(x, i - q) * 2^r) % LimbBase)
                 + (U64Limb(x, i - q - 1) \div 2^(16 - r))
  IN  <<limb(1), limb(2), limb(3), limb(4)>>

\* x | y on uint64_t
U64Or(x, y) ==
  <<BitOr(x[1], y[1]), BitOr(x[2], y[2]), BitOr(x[3], y[3]), BitOr(x[4], y[4])>>

\* x + y on uint64_t (mod 2^64)
U64Add(x, y) ==
  LET s1 == x[1] + y[1]
      s2 == x[2] + y[2] + (s1 \div LimbBase)
      s3 == x[3] + y[3] + (s2 \div LimbBase)
      s4 == x[4] + y[4] + (s3 \div LimbBase)
  IN  <<s1 % LimbBase, s2 % LimbBase, s3 % LimbBase, s4 % LimbBase>>

\* x * m on uint64_t (mod 2^64), 0 <= m < 2^15
U64Mul(x, m) ==
  LET p1 == x[1] * m
      p2 == x[2] * m + (p1 \div LimbBase)
      p3 == x[3] * m + (p2 \div LimbBase)
      p4 == x[4] * m + (p3 \div LimbBase)
  IN  <<p1 % LimbBase, p2 % LimbBase, p3 % LimbBase, p4 % LimbBase>>

U64Zero == <<0, 0, 0, 0>>

\* A 64-bit value below 2^33
Below2To33(v) == v[4] = 0 /\ v[3] <= 1

\* ------------------------------------------------------------------------
\* Memory: the frame buffer and pointers into it
\* ------------------------------------------------------------------------
NullPtr == [null |-> TRUE, off |-> 0]

Ptr(o) == [null |-> FALSE, off |-> o]

\* p[i] for a pointer p into the frame mem; past the frame the byte is junk
At(mem, p, i, junk) ==
  IF p.off + i < TS_PacketLength THEN mem[p.off + i + 1] ELSE junk

\* The n bytes p[0..n-1], as memcpy reads them
Bytes(mem, p, n, junk) ==
  IF p.off + n <= TS_PacketLength
  THEN SubSeq(mem, p.off + 1, p.off + n)
  ELSE [i \in 1..n |-> At(mem, p, i - 1, junk)]

\* ------------------------------------------------------------------------
\* xTS_PacketHeader
\* ------------------------------------------------------------------------
\* Faulty variant of xTS_PacketHeader_Reset: the fields keep their values
xTS_PacketHeader_Reset_Keep(self) == self

xTS_PacketHeader_Reset(self) ==
  [self EXCEPT !.m_SB = 0, !.m_E = 0, !.m_S = 0, !.m_T = 0,
               !.m_PID = 0, !.m_TSC = 0, !.m_AFC = 0, !.m_CC = 0]

\* Faulty variant of TS_ParsePID: only 4 bits of byte 1 are kept
TS_ParsePID_FourBits(b1, b2) == BitOr(ShiftLeft(BitAnd(b1, 15), 8), b2)

\* Line 76: the 13-bit PID from bytes 1 and 2
TS_ParsePID(b1, b2) == BitOr(ShiftLeft(BitAnd(b1, 31), 8), b2)

\* Returns [self |-> the header after the call, ret |-> the return value]
xTS_PacketHeader_Parse(self, mem, Input, junk) ==
  IF Input.null THEN [self |-> self, ret |-> NOT_VALID]
  ELSE
    LET s0 == [self EXCEPT !.m_SB = At(mem, Input, 0, junk)]
        b1 == At(mem, Input, 1, junk)
        b2 == At(mem, Input, 2, junk)
        b3 == At(mem, Input, 3, junk)
    IN  IF s0.m_SB # 71 THEN [self |-> s0, ret |-> NOT_VALID]      \* 0x47
        ELSE [self |->
                [s0 EXCEPT
                   !.m_E   = ShiftRight(BitAnd(b1, 128), 7),
                   !.m_S   = ShiftRight(BitAnd(b1, 64), 6),
                   !.m_T   = ShiftRight(BitAnd(b1, 32), 5),
                   !.m_PID = TS_ParsePID(b1, b2),
                   !.m_TSC = ShiftRight(BitAnd(b3, 192), 6),
                   !.m_AFC = ShiftRight(BitAnd(b3, 48), 4),
                   !.m_CC  = BitAnd(b3, 15)],
              ret |-> TS_HeaderLength]

\* ------------------------------------------------------------------------
\* xTS_AdaptationField
\* ------------------------------------------------------------------------
\* Reset leaves m_PrivateDataLength, m_ExtensionLength, m_SplicingPointOffset
\* and m_Buffer as they were.
xTS_AdaptationField_Reset(self) ==
  [self EXCEPT !.m_AFC = 0, !.m_Len = 0,
               !.m_DC = 0, !.m_RA = 0, !.m_SP = 0, !.m_PR = 0,
               !.m_OR = 0, !.m_SF = 0, !.m_TP = 0, !.m_EX = 0,
               !.m_PCR_base = U64Zero, !.m_PCR_extension = 0,
               !.m_OPCR_base = U64Zero, !.m_OPCR_extension = 0]

\* The 33-bit base of the 6-byte clock field at p[o..o+5]
ClockBase(mem, p, o, junk) ==
  U64Or(U64Or(U64Or(U64Or(
      U64ShiftLeft(U64(At(mem, p, o, junk)), 25),
      U64ShiftLeft(U64(At(mem, p, o + 1, junk)), 17)),
      U64ShiftLeft(U64(At(mem, p, o + 2, junk)), 9)),
      U64ShiftLeft(U64(At(mem, p, o + 3, junk)), 1)),
      U64(ShiftRight(At(mem, p, o + 4, junk), 7)))

\* Faulty variant of ClockExtension: the low bit of byte 4 is left out
ClockExtension_ByteFiveOnly(mem, p, o, junk) == At(mem, p, o + 5, junk)

\* The 9-bit extension of the 6-byte clock field at p[o..o+5] (uint16_t)
ClockExtension(mem, p, o, junk) ==
  BitOr(ShiftLeft(BitAnd(At(mem, p, o + 4, junk), 1), 8), At(mem, p, o + 5, junk))

\* The optional fields of Parse, threading [af, off] (off is currentOffset)
AF_ParsePCR(s, mem, p, junk) ==
  IF s.af.m_PR # 0 /\ s.af.m_Len >= s.off + 6
  THEN [af  |-> [s.af EXCEPT !.m_PCR_base = ClockBase(mem, p, s.off, junk),
                             !.m_PCR_extension = ClockExtension(mem, p, s.off, junk)],
        off |-> s.off + 6]
  ELSE s

AF_ParseOPCR(s, mem, p, junk) ==
  IF s.af.m_OR # 0 /\ s.af.m_Len >= s.off + 6
  THEN [af  |-> [s.af EXCEPT !.m_OPCR_base = ClockBase(mem, p, s.off, junk),
                             !.m_OPCR_extension = ClockExtension(mem, p, s.off, junk)],
        off |-> s.off + 6]
  ELSE s

AF_ParseSplice(s, mem, p, junk) ==
  IF s.af.m_SF # 0 /\ s.af.m_Len >= s.off + 1
  THEN [af  |-> [s.af EXCEPT !.m_SplicingPointOffset = At(mem, p, s.off, junk)],
        off |-> s.off + 1]
  ELSE s

AF_ParsePrivate(s, mem, p, junk) ==
  IF s.af.m_TP # 0 /\ s.af.m_Len >= s.off + 1
  THEN LET len == At(mem, p, s.off, junk)
           o1  == s.off + 1
       IN  [af  |-> [s.af EXCEPT !.m_PrivateDataLength = len],
            off |-> IF s.af.m_Len >= o1 + len THEN o1 + len ELSE o1]
  ELSE s

AF_ParseExtension(s, mem, p, junk) ==
  IF s.af.m_EX # 0 /\ s.af.m_Len >= s.off + 1
  THEN LET len == At(mem, p, s.off, junk)
       IN  [af  |-> [s.af EXCEPT !.m_ExtensionLength = len],
            off |-> s.off + 1 + len]
  ELSE s

\* Faulty variant of AF_LengthInvalid: the limit is 183 for both controls
AF_LengthInvalid_OneLimit(s) == s.m_Len > 183

\* Line 210: the length exceeds the limit of the control value
AF_LengthInvalid(s) ==
  (s.m_Len > 183 /\ s.m_AFC = 3) \/ (s.m_Len > 184 /\ s.m_AFC = 2)

\* Returns [self |-> the field after the call, ret |-> the return value]
xTS_AdaptationField_Parse(self, mem, PacketBuffer, AdaptationFieldControl, junk) ==
  IF PacketBuffer.null THEN [self |-> self, ret |-> NOT_VALID]
  ELSE
    LET s0 == [self EXCEPT !.m_Buffer = PacketBuffer, !.m_AFC = AdaptationFieldControl]
    IN
    IF s0.m_AFC # 2 /\ s0.m_AFC # 3
    THEN [self |-> [s0 EXCEPT !.m_Len = 0], ret |-> 0]
    ELSE
      LET s1 == [s0 EXCEPT !.m_Len = At(mem, PacketBuffer, 0, junk)]
      IN
      IF AF_LengthInvalid(s1)
      THEN [self |-> s1, ret |-> NOT_VALID]
      ELSE
        LET s2 == [s1 EXCEPT !.m_PrivateDataLength = 0, !.m_ExtensionLength = 0,
                             !.m_SplicingPointOffset = 0]
            fl == At(mem, PacketBuffer, 1, junk)
            s3 == [s2 EXCEPT !.m_DC = ShiftRight(BitAnd(fl, 128), 7),
                             !.m_RA = ShiftRight(BitAnd(fl, 64), 6),
                             !.m_SP = ShiftRight(BitAnd(fl, 32), 5),
                             !.m_PR = ShiftRight(BitAnd(fl, 16), 4),
                             !.m_OR = ShiftRight(BitAnd(fl, 8), 3),
                             !.m_SF = ShiftRight(BitAnd(fl, 4), 2),
                             !.m_TP = ShiftRight(BitAnd(fl, 2), 1),
                             !.m_EX = BitAnd(fl, 1)]
            w  == AF_ParseExtension(AF_ParsePrivate(AF_ParseSplice(AF_ParseOPCR(
                    AF_ParsePCR([af |-> s3, off |-> 2], mem, PacketBuffer, junk),
                    mem, PacketBuffer, junk), mem, PacketBuffer, junk),
                    mem, PacketBuffer, junk), mem, PacketBuffer, junk)
        IN  IF s2.m_Len >= 1
            THEN [self |-> w.af, ret |-> s2.m_Len + 1]
            ELSE [self |-> s2, ret |-> s2.m_Len + 1]

\* The indices of PacketBuffer that a field of n bytes at before.off was
\* read at, when the step of Parse that reads it moved the offset on
AF_FieldReads(before, after, n) ==
  IF after.off # before.off THEN before.off..(before.off + n - 1) ELSE {}

\* Lines 231-288: the indices read after the flags byte, self being the
\* field as Parse left it
AF_OptionalReads(self, mem, p, junk, w0) ==
  \E w1 \in {AF_ParsePCR(w0, mem, p, junk)} :
  \E w2 \in {AF_ParseOPCR(w1, mem, p, junk)} :
  \E w3 \in {AF_ParseSplice(w2, mem, p, junk)} :
  \E w4 \in {AF_ParsePrivate(w3, mem, p, junk)} :
  \E w5 \in {AF_ParseExtension(w4, mem, p, junk)} :
    \A i \in AF_FieldReads(w0, w1, 6) \cup AF_FieldReads(w1, w2, 6)
             \cup AF_FieldReads(w2, w3, 1) \cup AF_FieldReads(w3, w4, 1)
             \cup AF_FieldReads(w4, w5, 1) :
      p.off + i < TS_PacketLength

\* Every index of PacketBuffer that Parse read, lines 205-288, lies in the
\* frame: the length byte, the flags byte, the optional fields
xTS_AdaptationField_Parse_ReadsInside(self, mem, p, junk) ==
  IF self.m_AFC # 2 /\ self.m_AFC # 3 THEN TRUE
  ELSE IF AF_LengthInvalid(self) \/ self.m_Len < 1 THEN p.off < TS_PacketLength
  ELSE /\ p.off + 1 < TS_PacketLength
       /\ AF_OptionalReads(self, mem, p, junk, [af |-> self, off |-> 2])

getPCR(self) ==
  U64Add(U64Mul(self.m_PCR_base, 300), U64(self.m_PCR_extension))

getOPCR(self) ==
  U64Add(U64Mul(self.m_OPCR_base, 300), U64(self.m_OPCR_extension))

\* Faulty variant of AF_FixedOffset: the splice countdown is not skipped
AF_FixedOffset_NoSplice(self) ==
  2 + (IF self.m_PR # 0 THEN 6 ELSE 0) + (IF self.m_OR # 0 THEN 6 ELSE 0)

\* The offset of the first length-prefixed field: flags byte, PCR, OPCR, splice
AF_FixedOffset(self) ==
  2 + (IF self.m_PR # 0 THEN 6 ELSE 0) + (IF self.m_OR # 0 THEN 6 ELSE 0)
    + (IF self.m_SF # 0 THEN 1 ELSE 0)

\* Faulty variant of getStuffingBytes: the whole length counts as stuffing
getStuffingBytes_WholeLength(self, mem, junk) ==
  IF (self.m_AFC # 2 /\ self.m_AFC # 3) \/ self.m_Len = 0 THEN 0 ELSE self.m_Len

\* getStuffingBytes() reads the frame again through m_Buffer
getStuffingBytes(self, mem, junk) ==
  IF (self.m_AFC # 2 /\ self.m_AFC # 3) \/ self.m_Len = 0 THEN 0
  ELSE
    LET u0 == 1 + (IF self.m_PR # 0 THEN 6 ELSE 0) + (IF self.m_OR # 0 THEN 6 ELSE 0)
                + (IF self.m_SF # 0 THEN 1 ELSE 0)
        privateDataOffset == AF_FixedOffset(self)
        u1 == IF self.m_TP # 0 /\ ~self.m_Buffer.null /\ self.m_Len >= privateDataOffset
              THEN u0 + 1 + At(mem, self.m_Buffer, privateDataOffset, junk)
              ELSE u0
        extensionOffset == AF_FixedOffset(self)
                           + (IF self.m_TP # 0 THEN 1 + self.m_PrivateDataLength ELSE 0)
        usedBytes == IF self.m_EX # 0 /\ ~self.m_Buffer.null /\ self.m_Len >= extensionOffset
                     THEN u1 + 1 + At(mem, self.m_Buffer, extensionOffset, junk)
                     ELSE u1
        stuffingBytes == self.m_Len - usedBytes
    IN  IF stuffingBytes > 0 THEN stuffingBytes ELSE 0

\* The indices of m_Buffer that getStuffingBytes() reads, lines 374-403
getStuffingBytes_Reads(self) ==
  IF (self.m_AFC # 2 /\ self.m_AFC # 3) \/ self.m_Len = 0 \/ self.m_Buffer.null THEN {}
  ELSE (IF self.m_TP # 0 /\ self.m_Len >= AF_FixedOffset(self)
        THEN {AF_FixedOffset(self)} ELSE {})
       \cup
       (IF self.m_EX # 0
           /\ self.m_Len >= AF_FixedOffset(self)
                + (IF self.m_TP # 0 THEN 1 + self.m_PrivateDataLength ELSE 0)
        THEN {AF_FixedOffset(self)
                + (IF self.m_TP # 0 THEN 1 + self.m_PrivateDataLength ELSE 0)}
        ELSE {})

\* ------------------------------------------------------------------------
\* xPES_PacketHeader
\* ------------------------------------------------------------------------
xPES_PacketHeader_Reset(self) ==
  [m_PacketStartCodePrefix |-> 0, m_StreamId |-> 0, m_PacketLength |-> 0,
   m_HeaderMarkerBits |-> 0, m_PES_scrambling_control |-> 0, m_PES_priority |-> 0,
   m_data_alignment_indicator |-> 0, m_copyright |-> 0, m_original_or_copy |-> 0,
   m_PTS_DTS_flags |-> 0, m_ESCR_flag |-> 0, m_ES_rate_flag |-> 0,
   m_DSM_trick_mode_flag |-> 0, m_additional_copy_info_flag |-> 0,
   m_PES_CRC_flag |-> 0, m_PES_extension_flag |-> 0, m_PES_header_data_length |-> 0,
   m_PTS |-> U64Zero, m_DTS |-> U64Zero,
   m_hasHeaderExtension |-> FALSE, m_headerLength |-> 6]

\* Stream ids that never carry the extended header (enum eStreamId)
NoExtensionStreamIds == {188, 190, 191, 240, 241, 255, 242, 248}

\* Faulty variant of TimeStamp: the four top bits of the first byte are not
\* masked off
TimeStamp_TopBitsKept(mem, p, o, junk) ==
  U64Or(U64Or(U64Or(U64Or(
      U64ShiftLeft(U64(ShiftRight(At(mem, p, o, junk), 1)), 30),
      U64ShiftLeft(U64(At(mem, p, o + 1, junk)), 22)),
      U64ShiftLeft(U64(ShiftRight(BitAnd(At(mem, p, o + 2, junk), 254), 1)), 15)),
      U64ShiftLeft(U64(At(mem, p, o + 3, junk)), 7)),
      U64(ShiftRight(BitAnd(At(mem, p, o + 4, junk), 254), 1)))

\* The 33-bit time stamp of the 5-byte field at p[o..o+4]
TimeStamp(mem, p, o, junk) ==
  U64Or(U64Or(U64Or(U64Or(
      U64ShiftLeft(U64(ShiftRight(BitAnd(At(mem, p, o, junk), 14), 1)), 30),
      U64ShiftLeft(U64(At(mem, p, o + 1, junk)), 22)),
      U64ShiftLeft(U64(ShiftRight(BitAnd(At(mem, p, o + 2, junk), 254), 1)), 15)),
      U64ShiftLeft(U64(At(mem, p, o + 3, junk)), 7)),
      U64(ShiftRight(BitAnd(At(mem, p, o + 4, junk), 254), 1)))

\* Lines 171-189: the PTS, when the flags announce one
PES_ParsePTS(s, mem, Input, junk) ==
  IF BitAnd(s.m_PTS_DTS_flags, 2) # 0
  THEN [s EXCEPT !.m_PTS = TimeStamp(mem, Input, 9, junk)]
  ELSE s

\* Faulty variant of PES_ParseDTS: the DTS is read whenever its bit is set
PES_ParseDTS_AnyDTSBit(s, mem, Input, junk) ==
  IF BitAnd(s.m_PTS_DTS_flags, 1) # 0
  THEN [s EXCEPT !.m_DTS =
          TimeStamp(mem, Input, IF BitAnd(s.m_PTS_DTS_flags, 2) # 0 THEN 14 ELSE 9, junk)]
  ELSE s

\* Lines 192-204: the DTS, when the flags are 3; it follows the PTS
PES_ParseDTS(s, mem, Input, junk) ==
  IF s.m_PTS_DTS_flags = 3
  THEN [s EXCEPT !.m_DTS =
          TimeStamp(mem, Input, IF BitAnd(s.m_PTS_DTS_flags, 2) # 0 THEN 14 ELSE 9, junk)]
  ELSE s

\* Lines 138-165: the flags of the extended header and the header length
PES_ParseFlags(s, b6, b7, b8) ==
  [s EXCEPT
     !.m_HeaderMarkerBits = ShiftRight(BitAnd(b6, 192), 6),
     !.m_PES_scrambling_control = ShiftRight(BitAnd(b6, 48), 4),
     !.m_PES_priority = ShiftRight(BitAnd(b6, 8), 3),
     !.m_data_alignment_indicator = ShiftRight(BitAnd(b6, 4), 2),
     !.m_copyright = ShiftRight(BitAnd(b6, 2), 1),
     !.m_original_or_copy = BitAnd(b6, 1),
     !.m_PTS_DTS_flags = ShiftRight(BitAnd(b7, 192), 6),
     !.m_ESCR_flag = ShiftRight(BitAnd(b7, 32), 5),
     !.m_ES_rate_flag = ShiftRight(BitAnd(b7, 16), 4),
     !.m_DSM_trick_mode_flag = ShiftRight(BitAnd(b7, 8), 3),
     !.m_additional_copy_info_flag = ShiftRight(BitAnd(b7, 4), 2),
     !.m_PES_CRC_flag = ShiftRight(BitAnd(b7, 2), 1),
     !.m_PES_extension_flag = BitAnd(b7, 1),
     !.m_PES_header_data_length = b8,
     !.m_headerLength = PES_HeaderLength + 3 + b8]

\* Faulty variant of PES_Parsed: the length of the basic header is returned
PES_Parsed_BasicLength(s) == [self |-> s, ret |-> PES_HeaderLength]

\* Parse returns the header length it has found
PES_Parsed(s) == [self |-> s, ret |-> s.m_headerLength]

\* Faulty variant of PES_NoRoomForExtension: only the unbounded length 0
\* ends the parse
PES_NoRoomForExtension_ZeroOnly(s) == s.m_PacketLength = 0

\* Line 135: the packet length leaves no room for the 3 extension bytes
PES_NoRoomForExtension(s) == s.m_PacketLength < 3

\* Faulty variant of PES_ParseExtension: every stream id but the eight of
\* NoExtensionStreamIds has the extended header
PES_ParseExtension_AnyOtherId(s, mem, Input, junk) ==
  IF s.m_StreamId \notin NoExtensionStreamIds
  THEN
    IF PES_NoRoomForExtension(s) THEN PES_Parsed([s EXCEPT !.m_hasHeaderExtension = TRUE])
    ELSE PES_Parsed(
           PES_ParseDTS(
             PES_ParsePTS(
               PES_ParseFlags([s EXCEPT !.m_hasHeaderExtension = TRUE],
                              At(mem, Input, 6, junk), At(mem, Input, 7, junk),
                              At(mem, Input, 8, junk)),
               mem, Input, junk),
             mem, Input, junk))
  ELSE PES_Parsed(s)

\* Lines 117-211: the header after the start code prefix
PES_ParseExtension(s, mem, Input, junk) ==
  IF s.m_StreamId \notin NoExtensionStreamIds
     /\ ((s.m_StreamId >= 192 /\ s.m_StreamId <= 223)
         \/ (s.m_StreamId >= 224 /\ s.m_StreamId <= 239))
  THEN
    IF PES_NoRoomForExtension(s) THEN PES_Parsed([s EXCEPT !.m_hasHeaderExtension = TRUE])
    ELSE PES_Parsed(
           PES_ParseDTS(
             PES_ParsePTS(
               PES_ParseFlags([s EXCEPT !.m_hasHeaderExtension = TRUE],
                              At(mem, Input, 6, junk), At(mem, Input, 7, junk),
                              At(mem, Input, 8, junk)),
               mem, Input, junk),
             mem, Input, junk))
  ELSE PES_Parsed(s)

\* Lines 108-115: the prefix must be 0x000001; stream id and packet length
PES_ParseBasic(s, mem, Input, junk) ==
  IF s.m_PacketStartCodePrefix # 1 THEN [self |-> s, ret |-> NOT_VALID]
  ELSE PES_ParseExtension(
         [s EXCEPT
            !.m_StreamId = At(mem, Input, 3, junk),
            !.m_PacketLength = BitOr(ShiftLeft(At(mem, Input, 4, junk), 8),
                                     At(mem, Input, 5, junk)),
            !.m_headerLength = PES_HeaderLength],
         mem, Input, junk)

\* The indices of Input that Parse read, self being the header as Parse left
\* it: the prefix at line 107, stream id and length at 111-112, the three
\* bytes of the extended header at 138-162, the PTS at 179-183 and the DTS
\* at 194-198
xPES_PacketHeader_Parse_Reads(self) ==
  IF self.m_PacketStartCodePrefix # 1 THEN 0..2
  ELSE IF /\ self.m_StreamId \notin NoExtensionStreamIds
          /\ ((self.m_StreamId >= 192 /\ self.m_StreamId <= 223)
              \/ (self.m_StreamId >= 224 /\ self.m_StreamId <= 239))
          /\ ~PES_NoRoomForExtension(self)
       THEN 0..8
            \cup (IF BitAnd(self.m_PTS_DTS_flags, 2) # 0 THEN 9..13 ELSE {})
            \cup (IF self.m_PTS_DTS_flags = 3 THEN 14..18 ELSE {})
       ELSE 0..5

\* Returns [self |-> the header after the call, ret |-> the return value]
xPES_PacketHeader_Parse(self, mem, Input, junk) ==
  IF Input.null THEN [self |-> self, ret |-> NOT_VALID]
  ELSE PES_ParseBasic(
         [self EXCEPT !.m_PacketStartCodePrefix =
            BitOr(BitOr(ShiftLeft(At(mem, Input, 0, junk), 16),
                        ShiftLeft(At(mem, Input, 1, junk), 8)),
                  At(mem, Input, 2, junk))],
         mem, Input, junk)

hasPTS(self) == BitAnd(self.m_PTS_DTS_flags, 2) = 2

hasDTS(self) == BitAnd(self.m_PTS_DTS_flags, 3) = 3

getPTS(self) == self.m_PTS

getDTS(self) == self.m_DTS

getHeaderLength(self) == self.m_headerLength

hasOptionalHeader(self) == self.m_hasHeaderExtension

getPESHeaderDataLength(self) == self.m_PES_header_data_length

getPacketLength(self) == self.m_PacketLength

\* ------------------------------------------------------------------------
\* xPES_Assembler
\* ------------------------------------------------------------------------
\* Faulty variant of xBufferReset: the buffer keeps its bytes
xBufferReset_Keep(self) == self

\* m_Buffer is the pointer (null or the allocated block); m_BufferData holds
\* the bytes written to the block, m_BufferData[i] being m_Buffer[i - 1].
xBufferReset(self) ==
  [self EXCEPT !.m_Buffer = NullPtr, !.m_BufferData = <<>>,
               !.m_BufferSize = 0, !.m_DataOffset = 0]

Max(a, b) == IF a >= b THEN a ELSE b

\* Faulty variant of xBufferAppend: the bytes stored are not copied to the
\* new block when the buffer grows
xBufferAppend_GrowthDrops(self, mem, Data, Size, junk, allocOK) ==
  IF Size <= 0 \/ Data.null THEN self
  ELSE
    LET grow == self.m_DataOffset + Size > self.m_BufferSize
        newSize == Max(Max(self.m_BufferSize * 2, self.m_DataOffset + Size), MinBufferSize)
        s1 == IF grow
              THEN [self EXCEPT !.m_Buffer = Ptr(0),
                                !.m_BufferData = [i \in 1..self.m_DataOffset |-> 0],
                                !.m_BufferSize = newSize]
              ELSE self
    IN  IF grow /\ ~allocOK THEN self
        ELSE [s1 EXCEPT
                !.m_BufferData = SubSeq(s1.m_BufferData, 1, s1.m_DataOffset)
                                 \o Bytes(mem, Data, Size, junk),
                !.m_DataOffset = s1.m_DataOffset + Size]

\* Data is the pointer into the frame mem; allocOK says whether operator new
\* succeeds when the block has to grow.
xBufferAppend(self, mem, Data, Size, junk, allocOK) ==
  IF Size <= 0 \/ Data.null THEN self
  ELSE
    LET grow == self.m_DataOffset + Size > self.m_BufferSize
        newSize == Max(Max(self.m_BufferSize * 2, self.m_DataOffset + Size), MinBufferSize)
        kept == IF ~self.m_Buffer.null /\ self.m_DataOffset > 0
                THEN SubSeq(self.m_BufferData, 1, self.m_DataOffset)
                ELSE <<>>
        s1 == IF grow
              THEN [self EXCEPT !.m_Buffer = Ptr(0), !.m_BufferData = kept,
                                !.m_BufferSize = newSize]
              ELSE self
    IN  IF grow /\ ~allocOK THEN self
        ELSE [s1 EXCEPT
                !.m_BufferData = SubSeq(s1.m_BufferData, 1, s1.m_DataOffset)
                                 \o Bytes(mem, Data, Size, junk),
                !.m_DataOffset = s1.m_DataOffset + Size]

xPES_Assembler_Init(self, PID) ==
  LET s1 == xBufferReset([self EXCEPT !.m_PID = PID, !.m_Started = FALSE,
                                      !.m_LastContinuityCounter = 0,
                                      !.m_TotalStuffingBytes = 0])
  IN  [s1 EXCEPT !.m_PESH = xPES_PacketHeader_Reset(s1.m_PESH)]

\* The state after the constructor (m_PESH has no constructor: Init resets it)
xPES_Assembler_New ==
  [m_PESH |-> xPES_PacketHeader_Reset([x |-> 0]),
   m_PID |-> 0, m_Buffer |-> NullPtr, m_BufferData |-> <<>>, m_BufferSize |-> 0,
   m_DataOffset |-> 0, m_LastContinuityCounter |-> 0, m_Started |-> FALSE,
   m_TotalStuffingBytes |-> 0]

\* Faulty variant of AbsorbStart: a unit that fills the payload exactly is
\* not complete
AbsorbStart_Strict(s, payloadSize) ==
  IF s.m_PESH.m_PacketLength > 0 /\ 6 + s.m_PESH.m_PacketLength < payloadSize
  THEN [self |-> s, ret |-> AssemblingFinished]
  ELSE [self |-> s, ret |-> AssemblingStarted]

\* Lines 434-446: the unit start is stored; the unit may be complete at once
AbsorbStart(s, payloadSize) ==
  IF s.m_PESH.m_PacketLength > 0 /\ 6 + s.m_PESH.m_PacketLength <= payloadSize
  THEN [self |-> s, ret |-> AssemblingFinished]
  ELSE [self |-> s, ret |-> AssemblingStarted]

\* Faulty variant of AbsorbUnitStart: a header that fails to parse leaves the
\* unit in progress
AbsorbUnitStart_StayStarted(s, pr, mem, payload, payloadSize, junk, allocOK) ==
  IF pr.ret < 0
  THEN [self |-> [s EXCEPT !.m_PESH = pr.self], ret |-> UnexpectedPID]
  ELSE AbsorbStart(xBufferAppend([s EXCEPT !.m_PESH = pr.self], mem, payload,
                                 payloadSize, junk, allocOK),
                   payloadSize)

\* Lines 425-446: pr is what m_PESH.Parse(payload) gave
AbsorbUnitStart(s, pr, mem, payload, payloadSize, junk, allocOK) ==
  IF pr.ret < 0
  THEN [self |-> [s EXCEPT !.m_PESH = pr.self, !.m_Started = FALSE],
        ret |-> UnexpectedPID]
  ELSE AbsorbStart(xBufferAppend([s EXCEPT !.m_PESH = pr.self], mem, payload,
                                 payloadSize, junk, allocOK),
                   payloadSize)

\* Faulty variant of AbsorbContinuation: a declared length of 0 completes
\* the unit too
AbsorbContinuation_ZeroFinishes(s) ==
  IF s.m_DataOffset >= 6 + s.m_PESH.m_PacketLength
  THEN [self |-> s, ret |-> AssemblingFinished]
  ELSE [self |-> s, ret |-> AssemblingContinue]

\* Faulty variant of AbsorbContinuation: a complete unit is no longer in
\* progress
AbsorbContinuation_FinishEnds(s) ==
  IF s.m_PESH.m_PacketLength > 0 /\ s.m_DataOffset >= 6 + s.m_PESH.m_PacketLength
  THEN [self |-> [s EXCEPT !.m_Started = FALSE], ret |-> AssemblingFinished]
  ELSE [self |-> s, ret |-> AssemblingContinue]

\* Lines 452-467: the continuation is stored; the unit may be complete
AbsorbContinuation(s) ==
  IF s.m_PESH.m_PacketLength > 0 /\ s.m_DataOffset >= 6 + s.m_PESH.m_PacketLength
  THEN [self |-> s, ret |-> AssemblingFinished]
  ELSE [self |-> s, ret |-> AssemblingContinue]

\* Faulty variant of AbsorbPayload: a continuation met while no unit is in
\* progress starts one
AbsorbPayload_IdleStarts(self, mem, PacketHeader, payloadOffset, junk, allocOK) ==
  IF PacketHeader.m_S # 0
  THEN AbsorbUnitStart(xBufferReset([self EXCEPT !.m_Started = TRUE]),
                       xPES_PacketHeader_Parse(xPES_PacketHeader_Reset(self.m_PESH),
                                               mem, Ptr(payloadOffset), junk),
                       mem, Ptr(payloadOffset), TS_PacketLength - payloadOffset,
                       junk, allocOK)
  ELSE AbsorbContinuation(xBufferAppend([self EXCEPT !.m_Started = TRUE], mem,
                                        Ptr(payloadOffset),
                                        TS_PacketLength - payloadOffset, junk, allocOK))

\* Lines 411-471: the packet carries payload at TransportStreamPacket + payloadOffset
AbsorbPayload(self, mem, PacketHeader, payloadOffset, junk, allocOK) ==
  IF PacketHeader.m_S # 0
  THEN AbsorbUnitStart(xBufferReset([self EXCEPT !.m_Started = TRUE]),
                       xPES_PacketHeader_Parse(xPES_PacketHeader_Reset(self.m_PESH),
                                               mem, Ptr(payloadOffset), junk),
                       mem, Ptr(payloadOffset), TS_PacketLength - payloadOffset,
                       junk, allocOK)
  ELSE IF self.m_Started
  THEN AbsorbContinuation(xBufferAppend(self, mem, Ptr(payloadOffset),
                                        TS_PacketLength - payloadOffset, junk, allocOK))
  ELSE [self |-> self, ret |-> StreamPackedLost]

\* Faulty variants of ExpectedCC: the counter never moves on; it moves on by 2
ExpectedCC_NoIncrement(self, PacketHeader) == self.m_LastContinuityCounter

ExpectedCC_PlusTwo(self, PacketHeader) ==
  IF PacketHeader.m_AFC = 0 \/ PacketHeader.m_AFC = 2
  THEN self.m_LastContinuityCounter
  ELSE BitAnd(self.m_LastContinuityCounter + 2, 15)

\* Faulty variant of ExpectedCC: packets without payload must count on too
ExpectedCC_AlwaysIncrement(self, PacketHeader) ==
  BitAnd(self.m_LastContinuityCounter + 1, 15)

\* Lines 363-372: the counter the packet must carry while a unit is assembled
ExpectedCC(self, PacketHeader) ==
  IF PacketHeader.m_AFC = 0 \/ PacketHeader.m_AFC = 2
  THEN self.m_LastContinuityCounter
  ELSE BitAnd(self.m_LastContinuityCounter + 1, 15)

\* Faulty variant of ContinuityError: the unit stays in progress
ContinuityError_StayStarted(self) == [self |-> self, ret |-> StreamPackedLost]

\* Lines 375-380: the counter is not the expected one
ContinuityError(self) ==
  [self |-> [self EXCEPT !.m_Started = FALSE], ret |-> StreamPackedLost]

\* Lines 384-387: packets with payload set the last counter
UpdateLastCC(self, PacketHeader) ==
  IF PacketHeader.m_AFC = 1 \/ PacketHeader.m_AFC = 3
  THEN [self EXCEPT !.m_LastContinuityCounter = PacketHeader.m_CC]
  ELSE self

\* Faulty variant of AccumulateStuffing: nothing is added
AccumulateStuffing_None(self, AdaptationField, mem, junk) == self

\* Lines 393-397: the stuffing bytes of the adaptation field are added
AccumulateStuffing(self, AdaptationField, mem, junk) ==
  [self EXCEPT !.m_TotalStuffingBytes = @ + getStuffingBytes(AdaptationField, mem, junk)]

\* Faulty variant of NoPayload: the payload offset is not looked at
NoPayload_ControlOnly(afc, payloadOffset) == afc = 0 \/ afc = 2

\* Lines 403-405: the packet has no payload
NoPayload(afc, payloadOffset) ==
  payloadOffset >= TS_PacketLength \/ afc = 0 \/ afc = 2

\* Lines 359-471: AbsorbPacket after the PID check
AbsorbTarget(self, mem, PacketHeader, AdaptationField, junk, allocOK) ==
  IF self.m_Started /\ PacketHeader.m_CC # ExpectedCC(self, PacketHeader)
  THEN ContinuityError(self)
  ELSE
    LET afc == PacketHeader.m_AFC
        s1 == UpdateLastCC(self, PacketHeader)
        hasAF == BitAnd(afc, 2) # 0
        s2 == IF hasAF THEN AccumulateStuffing(s1, AdaptationField, mem, junk) ELSE s1
        payloadOffset == IF hasAF
                         THEN TS_HeaderLength + AdaptationField.m_Len + 1
                         ELSE TS_HeaderLength
    IN
    IF NoPayload(afc, payloadOffset)
    THEN [self |-> s2,
          ret |-> IF s2.m_Started THEN AssemblingContinue ELSE StreamPackedLost]
    ELSE AbsorbPayload(s2, mem, PacketHeader, payloadOffset, junk, allocOK)

\* Faulty variant of AbsorbPacket: the PID is not compared
AbsorbPacket_NoPIDCheck(self, mem, PacketHeader, AdaptationField, junk, allocOK) ==
  AbsorbTarget(self, mem, PacketHeader, AdaptationField, junk, allocOK)

\* Returns [self |-> the assembler after the call, ret |-> the eResult]
AbsorbPacket(self, mem, PacketHeader, AdaptationField, junk, allocOK) ==
  IF PacketHeader.m_PID # self.m_PID THEN [self |-> self, ret |-> UnexpectedPID]
  ELSE AbsorbTarget(self, mem, PacketHeader, AdaptationField, junk, allocOK)

getNumPacketBytes(self) == self.m_DataOffset

getTotalStuffingBytes(self) == self.m_TotalStuffingBytes

\* ------------------------------------------------------------------------
\* State: the objects and locals of main()
\* ------------------------------------------------------------------------
VARIABLES
  TS_PacketBuffer,     \* the 188-byte frame read last
  TS_PacketId,         \* the sequential packet counter
  TS_PacketHeader,     \* xTS_PacketHeader
  TS_AdaptationField,  \* xTS_AdaptationField
  PES_Assembler,       \* xPES_Assembler
  headerResult,        \* what TS_PacketHeader.Parse returned in this iteration
  afResult,            \* [called, ret]: TS_AdaptationField.Parse in this iteration
  result,              \* what AbsorbPacket returned in this iteration, or NotCalled
  pesResult,           \* [called, ret]: m_PESH.Parse called by itself in this step
  seq                  \* observer: the target-PID packets absorbed so far

vars == <<TS_PacketBuffer, TS_PacketId, TS_PacketHeader, TS_AdaptationField,
          PES_Assembler, headerResult, afResult, result, pesResult, seq>>

\* ------------------------------------------------------------------------
\* Frames fed to the loop
\* ------------------------------------------------------------------------
\* Bytes 1..3 of the transport header from its fields
HeaderByte1(tei, pusi, prio, pid) == tei * 128 + pusi * 64 + prio * 32 + (pid \div 256)

HeaderByte2(pid) == pid % 256

HeaderByte3(tsc, afc, cc) == tsc * 64 + afc * 16 + cc

\* A frame: the 4 header bytes hdr, then the bytes of af (the adaptation
\* field from its length byte on), 0xFF stuffing up to afTotal bytes, then
\* the bytes of pay and the filler byte fill up to the end of the frame.
Rep(b, n) == [i \in 1..n |-> b]

MkFrame(hdr, af, afTotal, pay, fill) ==
  LET head == hdr \o af \o Rep(255, afTotal - Len(af)) \o pay
  IN  SubSeq(head \o Rep(fill, TS_PacketLength), 1, TS_PacketLength)

\* Byte i of frame f
B(f, i) == f[i + 1]

\* What the observer reads off a frame, by arithmetic on its bytes
F_Sync(f) == B(f, 0)

F_PID(f) == (B(f, 1) % 32) * 256 + B(f, 2)

F_PUSI(f) == (B(f, 1) \div 64) % 2

F_AFC(f) == (B(f, 3) \div 16) % 4

F_CC(f) == B(f, 3) % 16

F_PayloadOffset(f) == IF F_AFC(f) \in {2, 3} THEN 5 + B(f, 4) ELSE 4

F_HasPayload(f) == F_AFC(f) \in {1, 3} /\ F_PayloadOffset(f) < TS_PacketLength

F_PayloadSize(f) == IF F_HasPayload(f) THEN TS_PacketLength - F_PayloadOffset(f) ELSE 0

F_Payload(f) == [i \in 1..F_PayloadSize(f) |-> B(f, F_PayloadOffset(f) + i - 1)]

F_ValidStart(f) ==
  /\ F_PayloadSize(f) >= 3
  /\ B(f, F_PayloadOffset(f)) = 0
  /\ B(f, F_PayloadOffset(f) + 1) = 0
  /\ B(f, F_PayloadOffset(f) + 2) = 1

F_PESLength(f) == B(f, F_PayloadOffset(f) + 4) * 256 + B(f, F_PayloadOffset(f) + 5)

\* The transport header of a frame with sync byte 0x47
Hdr(pusi, pid, afc, cc) ==
  <<71, HeaderByte1(0, pusi, 0, pid), HeaderByte2(pid), HeaderByte3(0, afc, cc)>>

\* A PES header for stream id sid declaring len bytes, with a PTS of 5 bytes
PesStart(sid, len) ==
  <<0, 0, 1, sid, len \div 256, len % 256, 128, 128, 5, 33, 0, 1, 0, 1>>

\* A payload whose first three bytes are not the start code 0x000001
BadStart == <<0, 0, 2, 224, 0, 184>>

\* Packet layouts of the target PID: unit start flag, adaptation field
\* control, the leading bytes of the adaptation field, its size in the
\* frame, and the first bytes of the payload.
Layouts ==
  { \* unit start, 184 payload bytes, 190 declared in all
    [pusi |-> 1, afc |-> 1, af |-> <<>>, total |-> 0, pay |-> PesStart(224, 184)],
    \* continuation, 184 payload bytes
    [pusi |-> 0, afc |-> 1, af |-> <<>>, total |-> 0, pay |-> <<>>],
    \* continuation, 176 stuffing bytes and 6 payload bytes
    [pusi |-> 0, afc |-> 3, af |-> <<177, 0>>, total |-> 178, pay |-> <<>>],
    \* adaptation field only
    [pusi |-> 0, afc |-> 2, af |-> <<183, 0>>, total |-> 184, pay |-> <<>>],
    \* unit start without the start code
    [pusi |-> 1, afc |-> 1, af |-> <<>>, total |-> 0, pay |-> BadStart] }

\* The frames of the target PID, each layout with each continuity counter;
\* the filler bytes tell the frames' payloads apart.
TargetFrames ==
  { MkFrame(Hdr(l.pusi, AUDIO_PID, l.afc, cc), l.af, l.total, l.pay, 160 + cc) :
      l \in Layouts, cc \in 0..15 }

\* A frame of another PID, and a frame with a wrong sync byte
ForeignFrames ==
  { MkFrame(Hdr(1, AUDIO_PID + 1, 1, 7), <<>>, 0, PesStart(224, 184), 85),
    MkFrame(Hdr(0, AUDIO_PID + 1, 3, 9), <<177, 0>>, 178, <<>>, 86) }

BadSyncFrame ==
  MkFrame(<<72, HeaderByte1(1, 1, 1, AUDIO_PID), HeaderByte2(AUDIO_PID),
            HeaderByte3(1, 3, 9)>>, <<1, 16>>, 2, <<>>, 85)

Frames == TargetFrames \cup ForeignFrames \cup {BadSyncFrame}

\* The continuity counters offered after counter cc: the same, the next,
\* one skipped
Deltas == {0, 1, 2}

\* Bytes the environment may supply for a read past the end of the frame
JunkBytes == {0, 255}

\* The parsers read at most 19 bytes of payload and, in the adaptation field,
\* no byte after the one that follows it: only a frame whose adaptation
\* field is 165 bytes or longer lets a read leave the frame.
JunkFor(f) == IF F_AFC(f) >= 2 /\ B(f, 4) >= 165 THEN JunkBytes ELSE {0}

\* Outcomes of operator new in xBufferAppend
AllocOutcomes == {TRUE}

\* ------------------------------------------------------------------------
\* The observer of the absorbed target-PID packets
\* ------------------------------------------------------------------------
\* seq records, over the target-PID packets handed to AbsorbPacket:
\*   n             how many there were
\*   cc            the continuity counter of the last one
\*   step          by how much it exceeds the counter before (mod 16)
\*   start         the last one has the unit start indicator set
\*   inc           every counter was the one before plus 1 (mod 16)
\*   stepsOK       every counter was the one before plus 1 or plus 2
\*   gaps          how many counters were the one before plus 2
\*   clean         the first packet is a unit start, every packet carries
\*                 payload, every unit start begins with the start code
\*   lost          how many results were StreamPackedLost
\*   idle          a counter was skipped and no unit start has followed
\*   afterGap      how many packets were met while idle
\*   res, prev     the last result and the one before
\*   size, prevSize the payload sizes of the last packet and the one before
\*   prevStart     the packet before the last was a unit start
\*   declared      the PES packet length written in the last unit start
\*                 that was accepted
\*   unitStuffing  the sum of getStuffingBytes() over the packets accepted
\*                 since the last accepted unit start, that one included
\*   allStuffing   the sum of getStuffingBytes() over all packets that the
\*                 continuity check did not reject
\*   baseCC        the continuity counter of the last accepted packet whose
\*                 adaptation field control announces payload (1 or 3)
\*   unitBytes     the payloads, in arrival order, of the packets accepted
\*                 since the last accepted unit start with payload, that
\*                 one included
FirstCC == 14

SeqInit ==
  [n |-> 0, cc |-> FirstCC, step |-> 0, start |-> FALSE, inc |-> TRUE, stepsOK |-> TRUE, gaps |-> 0,
   clean |-> TRUE, lost |-> 0, idle |-> FALSE, afterGap |-> 0,
   res |-> NotCalled, prev |-> NotCalled, size |-> 0, prevSize |-> 0,
   prevStart |-> FALSE, declared |-> 0,
   unitStuffing |-> 0, allStuffing |-> 0, baseCC |-> 0, unitBytes |-> <<>>]

\* f: the frame, res: what AbsorbPacket returned, started: m_Started before
\* the call, stuffing: getStuffingBytes() of the packet's adaptation field
SeqNext(s, f, res, started, stuffing) ==
  LET first == s.n = 0
      d == (F_CC(f) - s.cc + 16) % 16
      gap == ~first /\ d = 2
      idle == IF gap THEN TRUE ELSE IF F_PUSI(f) = 1 THEN FALSE ELSE s.idle
      accepted == res \in {AssemblingStarted, AssemblingContinue, AssemblingFinished}
  IN  [n |-> s.n + 1,
       cc |-> F_CC(f),
       step |-> d,
       start |-> F_PUSI(f) = 1,
       inc |-> s.inc /\ (first \/ d = 1),
       stepsOK |-> s.stepsOK /\ (first \/ d \in {1, 2}),
       gaps |-> s.gaps + (IF gap THEN 1 ELSE 0),
       clean |-> /\ s.clean
                 /\ F_HasPayload(f)
                 /\ (first => F_PUSI(f) = 1)
                 /\ (F_PUSI(f) = 1 => F_ValidStart(f)),
       lost |-> s.lost + (IF res = StreamPackedLost THEN 1 ELSE 0),
       idle |-> idle,
       afterGap |-> s.afterGap + (IF idle THEN 1 ELSE 0),
       res |-> res,
       prev |-> s.res,
       size |-> F_PayloadSize(f),
       prevSize |-> s.size,
       prevStart |-> s.start,
       declared |-> IF /\ F_PUSI(f) = 1 /\ F_PayloadSize(f) >= 6
                       /\ res \in {AssemblingStarted, AssemblingFinished}
                    THEN F_PESLength(f)
                    ELSE s.declared,
       unitStuffing |-> IF accepted /\ F_PUSI(f) = 1 THEN stuffing
                        ELSE IF accepted THEN s.unitStuffing + stuffing
                        ELSE s.unitStuffing,
       allStuffing |-> IF started /\ res = StreamPackedLost THEN s.allStuffing
                       ELSE s.allStuffing + stuffing,
       baseCC |-> IF accepted /\ F_AFC(f) \in {1, 3} THEN F_CC(f) ELSE s.baseCC,
       unitBytes |-> IF accepted /\ F_PUSI(f) = 1 /\ F_HasPayload(f) THEN F_Payload(f)
                     ELSE IF accepted THEN s.unitBytes \o F_Payload(f)
                     ELSE s.unitBytes]

\* ------------------------------------------------------------------------
\* Initial state: main() up to the packet loop
\* ------------------------------------------------------------------------
\* Bytes an object without constructor may hold before its first Parse
UninitBytes == {0, 5}

\* The objects main() declares: neither class has a constructor. Reset()
\* writes every member of the header, and every member of the adaptation
\* field but the three that hold g here and m_Buffer.
xTS_PacketHeader_Uninit ==
  [m_SB |-> 0, m_E |-> 0, m_S |-> 0, m_T |-> 0,
   m_PID |-> 0, m_TSC |-> 0, m_AFC |-> 0, m_CC |-> 0]

xTS_AdaptationField_Uninit(g) ==
  [m_AFC |-> 0, m_Len |-> 0, m_DC |-> 0, m_RA |-> 0, m_SP |-> 0, m_PR |-> 0,
   m_OR |-> 0, m_SF |-> 0, m_TP |-> 0, m_EX |-> 0,
   m_PCR_base |-> U64Zero, m_PCR_extension |-> 0,
   m_OPCR_base |-> U64Zero, m_OPCR_extension |-> 0,
   m_PrivateDataLength |-> g, m_ExtensionLength |-> g,
   m_SplicingPointOffset |-> g, m_Buffer |-> NullPtr]

Init ==
  /\ TS_PacketBuffer = Rep(0, TS_PacketLength)
  /\ TS_PacketId = 0
  /\ TS_PacketHeader = xTS_PacketHeader_Uninit
  /\ \E g \in UninitBytes : TS_AdaptationField = xTS_AdaptationField_Uninit(g)
  /\ PES_Assembler = xPES_Assembler_Init(xPES_Assembler_New, AUDIO_PID)
  /\ headerResult = 0
  /\ afResult = [called |-> FALSE, ret |-> 0]
  /\ result = NotCalled
  /\ pesResult = [called |-> FALSE, ret |-> 0]
  /\ seq = SeqInit

\* ------------------------------------------------------------------------
\* One iteration of the packet loop
\* ------------------------------------------------------------------------
\* Lines 133-211: the body of the loop for the frame f read from the file.
\* filter: whether AbsorbPacket is called only for AUDIO_PID (as main does)
IterationBody(f, junk, allocOK, filter) ==
  \E ph \in {xTS_PacketHeader_Parse(xTS_PacketHeader_Reset(TS_PacketHeader),
                                    f, Ptr(0), junk)} :
  \E pa \in {IF ph.ret = TS_HeaderLength /\ (ph.self.m_AFC = 2 \/ ph.self.m_AFC = 3)
             THEN xTS_AdaptationField_Parse(xTS_AdaptationField_Reset(TS_AdaptationField),
                                            f, Ptr(TS_HeaderLength), ph.self.m_AFC, junk)
             ELSE [self |-> xTS_AdaptationField_Reset(TS_AdaptationField), ret |-> 0]} :
  \E ab \in {IF ph.ret = TS_HeaderLength /\ (filter => ph.self.m_PID = AUDIO_PID)
             THEN AbsorbPacket(PES_Assembler, f, ph.self, pa.self, junk, allocOK)
             ELSE [self |-> PES_Assembler, ret |-> NotCalled]} :
    /\ TS_PacketBuffer' = f
    /\ TS_PacketHeader' = ph.self
    /\ headerResult' = ph.ret
    /\ TS_AdaptationField' = pa.self
    /\ afResult' = [called |-> ph.ret = TS_HeaderLength
                               /\ (ph.self.m_AFC = 2 \/ ph.self.m_AFC = 3),
                    ret |-> pa.ret]
    /\ PES_Assembler' = ab.self
    /\ result' = ab.ret
    /\ pesResult' = [called |-> FALSE, ret |-> 0]
    /\ seq' = IF ab.ret # NotCalled /\ F_PID(f) = AUDIO_PID
              THEN SeqNext(seq, f, ab.ret, PES_Assembler.m_Started,
                           IF F_AFC(f) >= 2 THEN getStuffingBytes(pa.self, f, junk)
                           ELSE 0)
              ELSE seq
    /\ TS_PacketId' = TS_PacketId + 1

\* The loop runs while the file gives frames: MaxPackets of them
Iteration(f, junk, allocOK, filter) ==
  /\ TS_PacketId < MaxPackets
  /\ IterationBody(f, junk, allocOK, filter)

\* The frames the file may hold next: a target-PID frame carries one of the
\* counters offered after the last target-PID frame
Offered(f) ==
  \/ F_Sync(f) # 71
  \/ F_PID(f) # AUDIO_PID
  \/ ((F_CC(f) - seq.cc + 16) % 16) \in Deltas

\* main(): the loop body, AbsorbPacket being called for AUDIO_PID only
MainIteration(f, junk, allocOK) == Iteration(f, junk, allocOK, TRUE)

\* A caller that hands a parsed packet of another PID to AbsorbPacket
DirectAbsorb(f, junk, allocOK) == Iteration(f, junk, allocOK, FALSE)

Next ==
  \/ \E f \in Frames :
       /\ Offered(f)
       /\ \E junk \in JunkFor(f), allocOK \in AllocOutcomes :
            MainIteration(f, junk, allocOK)
  \/ \E f \in ForeignFrames :
       \E junk \in JunkFor(f), allocOK \in AllocOutcomes :
         DirectAbsorb(f, junk, allocOK)

Spec == Init /\ [][Next]_vars

\* ------------------------------------------------------------------------
\* The loop fed with frames that differ in their transport header
\* ------------------------------------------------------------------------
\* Values of header bytes 1, 2 and 3: each bit is set in some and clear in
\* others; no PID is the target PID
HeaderBytes1 == {0, 31, 85, 170, 224, 255}

HeaderBytes2 == {0, 137, 255}

HeaderBytes3 == {0, 48, 90, 165, 207, 255}

\* Frames with sync byte 0x47, an empty adaptation field if there is one
HeaderFrames ==
  { MkFrame(<<71, b1, b2, b3>>, <<>>, 0, <<>>, 0) :
      b1 \in HeaderBytes1, b2 \in HeaderBytes2, b3 \in HeaderBytes3 }

\* Frames with another first byte, the other header bytes not zero
BadSyncFrames ==
  { MkFrame(<<sb, 255, 255, 255>>, <<>>, 0, <<>>, 0) : sb \in {0, 70, 255} }
    \cup {BadSyncFrame}

NextTSH ==
  \E f \in HeaderFrames \cup BadSyncFrames :
    \E junk \in JunkFor(f), allocOK \in AllocOutcomes :
      MainIteration(f, junk, allocOK)

SpecTSH == Init /\ [][NextTSH]_vars

\* ------------------------------------------------------------------------
\* The loop fed with frames that differ in their adaptation field
\* ------------------------------------------------------------------------
\* Six-byte clock fields: base 0x2468ACF1 and extension 0x123; base 2 and
\* extension 0; base 2^33 - 1 and extension 0x1FF
ClockA == <<18, 52, 86, 120, 129, 35>>

ClockSmall == <<0, 0, 0, 1, 0, 0>>

ClockMax == <<255, 255, 255, 255, 255, 255>>

\* Adaptation fields from the length byte on, with the adaptation field
\* control and the number of bytes they take in the frame
AFLayouts ==
  { \* length 7: the flags byte and a PCR
    [afc |-> 3, af |-> <<7, 16>> \o ClockA, total |-> 8],
    [afc |-> 3, af |-> <<7, 16>> \o ClockSmall, total |-> 8],
    \* length 7, random access and PCR flags
    [afc |-> 3, af |-> <<7, 80>> \o ClockA, total |-> 8],
    \* length 8: a PCR and one stuffing byte
    [afc |-> 3, af |-> <<8, 16>> \o ClockA, total |-> 9],
    \* adaptation field only: a PCR and 176 stuffing bytes
    [afc |-> 2, af |-> <<183, 16>> \o ClockMax, total |-> 184],
    \* PCR and OPCR, length 13 and length 14
    [afc |-> 3, af |-> <<13, 24>> \o ClockA \o ClockSmall, total |-> 14],
    [afc |-> 3, af |-> <<14, 24>> \o ClockA \o ClockSmall, total |-> 15],
    \* private data of 3 bytes
    [afc |-> 3, af |-> <<5, 2, 3, 1, 2, 3>>, total |-> 6],
    \* splice countdown 9
    [afc |-> 3, af |-> <<3, 4, 9>>, total |-> 4],
    \* extension of 2 bytes
    [afc |-> 3, af |-> <<4, 1, 2, 7, 7>>, total |-> 5],
    \* lengths 0 and 1
    [afc |-> 3, af |-> <<0>>, total |-> 1],
    [afc |-> 3, af |-> <<1, 0>>, total |-> 2],
    \* lengths over the limit of the control value
    [afc |-> 3, af |-> <<184, 0>>, total |-> 2],
    [afc |-> 2, af |-> <<185, 0>>, total |-> 2],
    \* no flag set: stuffing only, up to the longest field of each control
    [afc |-> 3, af |-> <<177, 0>>, total |-> 178],
    [afc |-> 3, af |-> <<183, 0>>, total |-> 184],
    [afc |-> 2, af |-> <<183, 0>>, total |-> 184],
    [afc |-> 2, af |-> <<184, 0>>, total |-> 185],
    \* private data up to the last byte of the longest field of each control,
    \* and the extension flag
    [afc |-> 3, af |-> <<183, 3, 180>>, total |-> 184],
    [afc |-> 2, af |-> <<184, 3, 181>>, total |-> 185],
    \* PCR and OPCR, the OPCR with every bit set
    [afc |-> 3, af |-> <<14, 24>> \o ClockSmall \o ClockMax, total |-> 15],
    \* private data of 2 bytes, an extension of 1 byte and 4 stuffing bytes
    [afc |-> 3, af |-> <<10, 3, 2, 9, 9, 1, 7>>, total |-> 11],
    \* private data said to be 200 bytes long in a field of 5 bytes
    [afc |-> 3, af |-> <<5, 2, 200, 1, 2, 3>>, total |-> 6],
    \* the PCR flag in a field of 1 byte
    [afc |-> 3, af |-> <<1, 16>>, total |-> 2],
    \* every optional field, and 164 stuffing bytes
    [afc |-> 2, af |-> <<183, 31>> \o ClockA \o ClockSmall \o <<9, 2, 1, 2, 1, 7>>,
     total |-> 184],
    \* no adaptation field
    [afc |-> 1, af |-> <<>>, total |-> 0] }

\* A PES header with PTS and DTS
PesStartBoth == <<0, 0, 1, 192, 0, 40, 128, 192, 10, 49, 0, 1, 0, 3, 17, 0, 1, 0, 1>>

\* Frames of another PID with each adaptation field, and unit starts of the
\* target PID after an adaptation field
AFFrames ==
  { MkFrame(Hdr(0, AUDIO_PID + 1, l.afc, cc), l.af, l.total, <<>>, 0) :
      l \in AFLayouts, cc \in {3, 12} }
    \cup
  { MkFrame(Hdr(1, AUDIO_PID, 3, 3), <<7, 16>> \o ClockA, 8, pay, 0) :
      pay \in {PesStart(224, 184), PesStartBoth, BadStart} }

NextAF ==
  \E f \in AFFrames :
    \E junk \in JunkFor(f), allocOK \in AllocOutcomes :
      MainIteration(f, junk, allocOK)

SpecAF == Init /\ [][NextAF]_vars

\* ------------------------------------------------------------------------
\* The loop fed with units of several lengths and packets without payload
\* ------------------------------------------------------------------------
\* Packet layouts of the target PID, as Layouts
UnitLayouts ==
  { \* unit starts of 184 payload bytes declaring 0 (unbounded), 178 (the
    \* unit ends with the packet) and 362 (it ends with the next packet)
    [pusi |-> 1, afc |-> 1, af |-> <<>>, total |-> 0, pay |-> PesStart(224, 0)],
    [pusi |-> 1, afc |-> 1, af |-> <<>>, total |-> 0, pay |-> PesStart(224, 178)],
    [pusi |-> 1, afc |-> 1, af |-> <<>>, total |-> 0, pay |-> PesStart(224, 362)],
    \* unit start of 182 payload bytes declaring 177: one byte is missing
    [pusi |-> 1, afc |-> 3, af |-> <<1, 0>>, total |-> 2, pay |-> PesStart(192, 177)],
    \* continuations of 184 and of 6 payload bytes
    [pusi |-> 0, afc |-> 1, af |-> <<>>, total |-> 0, pay |-> <<>>],
    [pusi |-> 0, afc |-> 3, af |-> <<177, 0>>, total |-> 178, pay |-> <<>>],
    \* unit start indicator set, no payload: the adaptation field fills the
    \* packet; adaptation field only; control 0
    [pusi |-> 1, afc |-> 3, af |-> <<183, 0>>, total |-> 184, pay |-> <<>>],
    [pusi |-> 1, afc |-> 2, af |-> <<183, 0>>, total |-> 184, pay |-> <<>>],
    [pusi |-> 1, afc |-> 0, af |-> <<>>, total |-> 0, pay |-> PesStart(224, 178)] }

UnitFrames ==
  { MkFrame(Hdr(l.pusi, AUDIO_PID, l.afc, cc), l.af, l.total, l.pay, 160 + cc) :
      l \in UnitLayouts, cc \in 0..15 }

\* The continuity counters offered after counter cc: the same and the next
UnitDeltas == {0, 1}

NextUnits ==
  \E f \in UnitFrames :
    /\ ((F_CC(f) - seq.cc + 16) % 16) \in UnitDeltas
    /\ \E junk \in JunkFor(f), allocOK \in AllocOutcomes :
         MainIteration(f, junk, allocOK)

SpecUnits == Init /\ [][NextUnits]_vars

\* ------------------------------------------------------------------------
\* The loop fed with units long enough for the buffer to grow
\* ------------------------------------------------------------------------
\* The number of frames of such a file
MaxAppends == 7

\* Packet layouts of the target PID, as Layouts: a unit start of 184 payload
\* bytes declaring 1500, continuations of 184 and of 6 payload bytes, and a
\* packet with the unit start indicator whose adaptation field fills it
BufferLayouts ==
  { [pusi |-> 1, afc |-> 1, af |-> <<>>, total |-> 0, pay |-> PesStart(224, 1500)],
    [pusi |-> 0, afc |-> 1, af |-> <<>>, total |-> 0, pay |-> <<>>],
    [pusi |-> 0, afc |-> 3, af |-> <<177, 0>>, total |-> 178, pay |-> <<>>],
    [pusi |-> 1, afc |-> 3, af |-> <<183, 0>>, total |-> 184, pay |-> <<>>] }

BufferFrames ==
  { MkFrame(Hdr(l.pusi, AUDIO_PID, l.afc, cc), l.af, l.total, l.pay, 160 + cc) :
      l \in BufferLayouts, cc \in 0..15 }

\* The file holds no gap: each frame carries the counter after the last one
NextBuffer ==
  \E f \in BufferFrames :
    /\ F_CC(f) = (seq.cc + 1) % 16
    /\ TS_PacketId < MaxAppends
    /\ \E junk \in JunkFor(f), allocOK \in AllocOutcomes :
         IterationBody(f, junk, allocOK, TRUE)

SpecBuffer == Init /\ [][NextBuffer]_vars

\* ------------------------------------------------------------------------
\* The loop fed with unit starts whose payload begins anywhere in the frame
\* ------------------------------------------------------------------------
\* The number of frames of such a file
MaxShortPackets == 2

\* Adaptation field lengths of control 3: the payload begins at byte 5 + the
\* length and has 19, 18, 14, 13, 9, 8, 6, 5, 3, 2, 1 bytes
ShortAFLengths == {164, 165, 169, 170, 174, 175, 177, 178, 180, 181, 182}

\* PES headers: PTS and DTS in 10 bytes of header data; the same flags and
\* fields with header data length 0; a PTS with header data length 5; a
\* stream id without extended header
ShortHeaders ==
  { PesStartBoth,
    <<0, 0, 1, 192, 0, 40, 128, 192, 0, 49, 0, 1, 0, 3, 17, 0, 1, 0, 1>>,
    PesStart(224, 184),
    <<0, 0, 1, 190, 0, 40>> }

\* Unit starts of the target PID without adaptation field and after each
\* adaptation field, and a continuation
ShortFrames ==
  { MkFrame(Hdr(1, AUDIO_PID, 1, cc), <<>>, 0, pes, 0) :
      pes \in ShortHeaders, cc \in {0} }
    \cup
  { MkFrame(Hdr(1, AUDIO_PID, 3, cc), <<len, 0>>, len + 1, pes, 0) :
      len \in ShortAFLengths, pes \in ShortHeaders, cc \in {0} }
    \cup
  { MkFrame(Hdr(0, AUDIO_PID, 1, cc), <<>>, 0, <<>>, 160 + cc) : cc \in {0, 1} }

NextShort ==
  \E f \in ShortFrames :
    /\ TS_PacketId < MaxShortPackets
    /\ \E junk \in JunkFor(f), allocOK \in AllocOutcomes :
         IterationBody(f, junk, allocOK, TRUE)

SpecShort == Init /\ [][NextShort]_vars

\* ------------------------------------------------------------------------
\* The adaptation field parser called with every control value
\* ------------------------------------------------------------------------
\* Length bytes around the limits 183 and 184
AFLengths == {0, 1, 8, 182, 183, 184, 185, 255}

\* Frames of another PID with each control value in the header, each length
\* byte, and a flags byte without flags or with the PCR flag
LengthFrames ==
  { MkFrame(Hdr(0, AUDIO_PID + 1, afc, 0), <<len, fl>>, 2, <<18, 52, 86, 120, 129, 35>>, 0) :
      afc \in 0..3, len \in AFLengths, fl \in {0, 16} }

\* TS_AdaptationField.Reset() and TS_AdaptationField.Parse() as lines 136
\* and 143 call them, for a frame f of any control value
ParseAdaptationField(f, junk) ==
  \E r \in {xTS_AdaptationField_Parse(xTS_AdaptationField_Reset(TS_AdaptationField),
                                      f, Ptr(TS_HeaderLength), F_AFC(f), junk)} :
    /\ TS_PacketId < MaxPackets
    /\ TS_PacketBuffer' = f
    /\ TS_AdaptationField' = r.self
    /\ afResult' = [called |-> TRUE, ret |-> r.ret]
    /\ TS_PacketId' = TS_PacketId + 1
    /\ UNCHANGED <<TS_PacketHeader, PES_Assembler, headerResult, result,
                   pesResult, seq>>

NextAFParse ==
  \E f \in LengthFrames \cup AFFrames :
    \E junk \in JunkFor(f) : ParseAdaptationField(f, junk)

SpecAFParse == Init /\ [][NextAFParse]_vars

\* ------------------------------------------------------------------------
\* The PES header parser called on the payload of unit-start frames
\* ------------------------------------------------------------------------
\* The 5-byte field of the 33-bit time stamp v (limbs), lines 172-177: the
\* four top bits top, bits 32-30 and a marker bit mk; bits 29-22; bits 21-15
\* and a marker bit; bits 14-7; bits 6-0 and a marker bit
EncodeTimeStamp(top, v, mk) ==
  << top * 16 + ((v[2] \div 16384) + (v[3] % 2) * 4) * 2 + mk,
     (v[2] \div 64) % 256,
     ((v[1] \div 32768) + (v[2] % 64) * 2) * 2 + mk,
     (v[1] \div 128) % 256,
     (v[1] % 128) * 2 + mk >>

\* 33-bit values: 0, 2^33 - 1, 0x155555555, 0x0AAAAAAAA, 0x123456789
PTSValues ==
  { <<0, 0, 0, 0>>, <<65535, 65535, 1, 0>>, <<21845, 21845, 1, 0>>,
    <<43690, 43690, 0, 0>>, <<26505, 9029, 1, 0>> }

\* 33-bit values: 0, 2^33 - 1, 2^30, 2^15, 0x0FEDCBA98
DTSValues ==
  { <<0, 0, 0, 0>>, <<65535, 65535, 1, 0>>, <<0, 16384, 0, 0>>,
    <<32768, 0, 0, 0>>, <<47768, 65244, 0, 0>> }

\* The four top bits of a field's first byte, and the marker bits
TopBits == {0, 3, 15}

MarkerBits == {0, 1}

\* A PES header: start code, stream id, packet length, the two flag bytes,
\* the header data length and two 5-byte fields
PesHeader(sid, len, b6, b7, hdl, field1, field2) ==
  <<0, 0, 1, sid, len \div 256, len % 256, b6, b7, hdl>> \o field1 \o field2

\* A unit start of the target PID whose payload is the PES header pes
PesFrame(pes) == MkFrame(Hdr(1, AUDIO_PID, 1, 0), <<>>, 0, pes, 0)

\* Stream id sid with PTS p and DTS d, flags 0b11
TimeStampFrame(sid, p, d, top, mk) ==
  PesFrame(PesHeader(sid, IF sid = 192 THEN 3 ELSE 40, 128, 192, 10,
                     EncodeTimeStamp(top, p, mk), EncodeTimeStamp(top, d, mk)))

TimeStampFrames ==
  { TimeStampFrame(sid, p, d, top, mk) :
      sid \in {192, 239}, p \in PTSValues, d \in DTSValues,
      top \in TopBits, mk \in MarkerBits }

\* Stream ids: program stream map, private stream 1, private stream 2, the
\* ends of the audio and of the video range, ECM, program stream directory
StreamIds == {188, 189, 191, 192, 223, 224, 239, 240, 255}

\* Headers of each stream id with packet lengths around 3, each value of the
\* PTS/DTS flags and two header data lengths; both fields hold bits
StructureFrames ==
  { PesFrame(PesHeader(sid, len, 128, b7, hdl,
                       EncodeTimeStamp(2, <<26505, 9029, 1, 0>>, 1),
                       EncodeTimeStamp(1, <<47768, 65244, 0, 0>>, 1))) :
      sid \in StreamIds, len \in {0, 2, 3}, b7 \in {0, 64, 128, 255}, hdl \in {0, 10} }

\* Payloads that do not begin with 0x000001
NoStartCodeFrames ==
  { PesFrame(BadStart), PesFrame(<<0, 1, 1, 224, 0, 40, 128, 192, 10>>),
    PesFrame(<<1, 0, 1, 224, 0, 40, 128, 192, 10>>) }

PESFrames == TimeStampFrames \cup StructureFrames \cup NoStartCodeFrames

\* m_PESH.Reset() and m_PESH.Parse(payload), as lines 423-426 call them, on
\* the payload of frame f
ParsePESHeader(f, junk) ==
  \E r \in {xPES_PacketHeader_Parse(xPES_PacketHeader_Reset(PES_Assembler.m_PESH),
                                    f, Ptr(TS_HeaderLength), junk)} :
    /\ TS_PacketId < MaxPackets
    /\ TS_PacketBuffer' = f
    /\ PES_Assembler' = [PES_Assembler EXCEPT !.m_PESH = r.self]
    /\ pesResult' = [called |-> TRUE, ret |-> r.ret]
    /\ TS_PacketId' = TS_PacketId + 1
    /\ UNCHANGED <<TS_PacketHeader, TS_AdaptationField, headerResult, afResult,
                   result, seq>>

NextPESH ==
  \E f \in PESFrames : \E junk \in JunkFor(f) : ParsePESHeader(f, junk)

SpecPESH == Init /\ [][NextPESH]_vars

\* ------------------------------------------------------------------------
\* Properties of the assembler
\* ------------------------------------------------------------------------
\* The frame read last was handed to AbsorbPacket as a target-PID packet
TargetAbsorbed ==
  /\ seq.n >= 1
  /\ F_Sync(TS_PacketBuffer) = 71
  /\ F_PID(TS_PacketBuffer) = AUDIO_PID

\* C1 as stated: in a sequence of payload-bearing target-PID packets that
\* starts with a unit start and whose counters step by 1 but for one skipped
\* value, StreamPackedLost is returned exactly once.
C1_LostExactlyOnce ==
  (seq.clean /\ seq.stepsOK /\ seq.gaps = 1) => seq.lost = 1

\* C1 amended: in such a sequence StreamPackedLost is returned for the
\* packet right after the gap and for every packet that follows it before
\* the next unit start, and for no other packet.
C1_LostUntilUnitStart ==
  (seq.clean /\ seq.stepsOK /\ seq.gaps <= 1)
    => /\ (seq.res = StreamPackedLost) <=> seq.idle
       /\ seq.lost = seq.afterGap

\* Two packets in a row were lost after the one skipped counter
C1_Witness ==
  seq.clean /\ seq.stepsOK /\ seq.gaps = 1 /\ seq.lost = 2

C3_NeverLost == seq.inc => seq.lost = 0

\* C3 amended: StreamPackedLost is never returned in a sequence of
\* payload-bearing target-PID packets whose counters step by 1, that begins
\* with a unit start, every unit start carrying the start code.
C3_NeverLostFromUnitStart == (seq.clean /\ seq.inc) => seq.lost = 0

\* Three such packets, the counter wrapping from 15 to 0
C3_Witness ==
  seq.clean /\ seq.inc /\ seq.n = 3 /\ seq.cc = 1 /\ seq.res = AssemblingFinished

\* The last two packets are a unit start that declares more than it carries
\* and a continuation that brings at least the rest, in a sequence without
\* loss that began with a unit start
TwoPacketUnit ==
  /\ seq.clean /\ seq.inc /\ seq.n >= 2
  /\ seq.prevStart /\ ~seq.start
  /\ 6 + seq.declared > seq.prevSize
  /\ seq.prevSize + seq.size >= 6 + seq.declared

C7_ForeignPIDNoChange ==
  [][(result' # NotCalled /\ TS_PacketHeader'.m_PID # PES_Assembler.m_PID)
       => (result' = UnexpectedPID /\ PES_Assembler' = PES_Assembler)]_vars

\* A packet of another PID was refused while a unit was in progress
C7_Witness ==
  /\ result = UnexpectedPID
  /\ TS_PacketHeader.m_PID # PES_Assembler.m_PID
  /\ PES_Assembler.m_Started
  /\ getNumPacketBytes(PES_Assembler) > 0

\* C15: AbsorbPacket returns UnexpectedPID only for a packet whose PID is
\* not the assembler's target PID; a packet with the target PID never gets
\* UnexpectedPID.
C15_UnexpectedOnlyForeign ==
  result = UnexpectedPID => TS_PacketHeader.m_PID # PES_Assembler.m_PID

\* What the code does: a packet of the target PID gets UnexpectedPID exactly
\* when it passes the continuity check with payload and the unit start
\* indicator set and its payload does not begin with 0x000001; no unit is in
\* progress then
UnexpectedForBadStartCode ==
  (result = UnexpectedPID /\ TS_PacketHeader.m_PID = PES_Assembler.m_PID)
    => /\ F_PUSI(TS_PacketBuffer) = 1
       /\ F_HasPayload(TS_PacketBuffer)
       /\ ~F_ValidStart(TS_PacketBuffer)
       /\ ~PES_Assembler.m_Started

\* The step hands the frame it reads to AbsorbPacket as a target-PID packet
AbsorbsTarget ==
  /\ result' # NotCalled
  /\ F_Sync(TS_PacketBuffer') = 71
  /\ F_PID(TS_PacketBuffer') = AUDIO_PID

\* The counter expected of frame f: the counter of the last accepted packet
\* with payload, plus 1 mod 16 unless f announces no payload
F_ExpectedCC(f) ==
  IF F_AFC(f) \in {0, 2} THEN seq.baseCC ELSE (seq.baseCC + 1) % 16

\* C17: while a unit is in progress a target-PID packet gets the loss
\* result, and no unit is in progress after it, exactly when its continuity
\* counter differs from the expected one: the counter of the last accepted
\* packet with payload if the packet's adaptation field control is 0 or 2,
\* else that counter + 1 mod 16; packets without payload do not move the
\* counter compared with.
C17_LostIffUnexpectedCounter ==
  [][(PES_Assembler.m_Started /\ AbsorbsTarget)
       => /\ (result' = StreamPackedLost /\ ~PES_Assembler'.m_Started)
                <=> F_CC(TS_PacketBuffer') # F_ExpectedCC(TS_PacketBuffer')
          /\ result' = StreamPackedLost
                <=> F_CC(TS_PacketBuffer') # F_ExpectedCC(TS_PacketBuffer')
          /\ PES_Assembler'.m_Started => seq'.baseCC = PES_Assembler'.m_LastContinuityCounter
          /\ F_AFC(TS_PacketBuffer') \in {0, 2} => seq'.baseCC = seq.baseCC]_vars

\* A unit start, an adaptation-only packet with the same counter and a
\* continuation with the next counter were all accepted
C17_Witness ==
  /\ seq.n = 3 /\ seq.lost = 0
  /\ seq.prev = AssemblingContinue /\ seq.prevSize = 0
  /\ seq.res \in {AssemblingContinue, AssemblingFinished} /\ seq.size > 0
  /\ seq.step = 1
  /\ seq.baseCC = seq.cc
  /\ PES_Assembler.m_LastContinuityCounter = seq.cc

\* An adaptation-only packet with the next counter was rejected while a unit
\* was in progress
CC_AdaptationOnlyRejected ==
  /\ TargetAbsorbed
  /\ F_AFC(TS_PacketBuffer) = 2
  /\ seq.prev = AssemblingStarted /\ seq.step = 1
  /\ result = StreamPackedLost
  /\ ~PES_Assembler.m_Started

\* The step's packet passes the continuity check: no unit is in progress,
\* or its counter is the expected one
PassesContinuity ==
  PES_Assembler.m_Started
    => F_CC(TS_PacketBuffer') = F_ExpectedCC(TS_PacketBuffer')

UnitStart_OneByteMissing ==
  /\ TargetAbsorbed
  /\ seq.start /\ seq.size = 182 /\ seq.declared = 177
  /\ result = AssemblingStarted
  /\ getNumPacketBytes(PES_Assembler) = 182

\* C19: for a continuation packet accepted while a unit is in progress,
\* AbsorbPacket appends its payload and returns AssemblingFinished if and
\* only if the declared PES length is not 0 and the byte count after the
\* append is at least 6 + the declared length, else AssemblingContinue; a
\* unit that declares 0 never gets AssemblingFinished.
C19_ContinuationFinishes ==
  /\ [][(PES_Assembler.m_Started /\ AbsorbsTarget /\ PassesContinuity
           /\ F_PUSI(TS_PacketBuffer') = 0
           /\ F_HasPayload(TS_PacketBuffer'))
          => /\ getNumPacketBytes(PES_Assembler')
                  = getNumPacketBytes(PES_Assembler) + F_PayloadSize(TS_PacketBuffer')
             /\ PES_Assembler'.m_BufferData
                  = PES_Assembler.m_BufferData \o F_Payload(TS_PacketBuffer')
             /\ result' = IF seq.declared # 0
                             /\ getNumPacketBytes(PES_Assembler') >= 6 + seq.declared
                          THEN AssemblingFinished
                          ELSE AssemblingContinue]_vars
  /\ [](result = AssemblingFinished => seq.declared # 0)

\* A unit declaring 0 holds three packets of 184 bytes and goes on
C19_Witness ==
  /\ TargetAbsorbed
  /\ seq.n = 3 /\ seq.declared = 0
  /\ seq.prev = AssemblingContinue /\ result = AssemblingContinue
  /\ getNumPacketBytes(PES_Assembler) = 552

\* A unit declaring 362 was completed by the continuation that brought the
\* byte count to 374, after one that brought it to 190
Unit_FinishedAfterContinue ==
  /\ TargetAbsorbed
  /\ seq.n = 3 /\ seq.declared = 362
  /\ seq.prev = AssemblingContinue /\ result = AssemblingFinished
  /\ getNumPacketBytes(PES_Assembler) = 374

\* C20: for a target-PID packet that passes the continuity check and has no
\* payload (adaptation field control 0 or 2, or a payload offset 4 + 1 +
\* adaptation field length of 188 or more), AbsorbPacket appends nothing,
\* leaves the unit-in-progress flag and the buffer as they are and returns
\* AssemblingContinue if a unit is in progress, else StreamPackedLost,
\* whatever the unit start indicator is.
C20_NoPayloadNoChange ==
  [][(AbsorbsTarget /\ PassesContinuity
        /\ (F_AFC(TS_PacketBuffer') \in {0, 2}
              \/ 4 + 1 + B(TS_PacketBuffer', 4) >= TS_PacketLength))
       => /\ PES_Assembler'.m_Started = PES_Assembler.m_Started
          /\ PES_Assembler'.m_Buffer = PES_Assembler.m_Buffer
          /\ PES_Assembler'.m_BufferData = PES_Assembler.m_BufferData
          /\ PES_Assembler'.m_BufferSize = PES_Assembler.m_BufferSize
          /\ getNumPacketBytes(PES_Assembler') = getNumPacketBytes(PES_Assembler)
          /\ result' = IF PES_Assembler.m_Started THEN AssemblingContinue
                       ELSE StreamPackedLost]_vars

\* A packet with the unit start indicator and an adaptation field that fills
\* it was met while a unit of 184 bytes was in progress: the unit goes on
C20_Witness ==
  /\ TargetAbsorbed
  /\ F_PUSI(TS_PacketBuffer) = 1 /\ F_AFC(TS_PacketBuffer) = 3
  /\ B(TS_PacketBuffer, 4) = 183
  /\ seq.prev = AssemblingStarted
  /\ result = AssemblingContinue
  /\ PES_Assembler.m_Started
  /\ getNumPacketBytes(PES_Assembler) = 184

\* A packet with the unit start indicator and control 0 was met while no
\* unit was in progress: the loss result, and no unit is started
NoPayload_LostWhileIdle ==
  /\ TargetAbsorbed
  /\ F_PUSI(TS_PacketBuffer) = 1 /\ F_AFC(TS_PacketBuffer) = 0
  /\ seq.n = 1
  /\ result = StreamPackedLost
  /\ ~PES_Assembler.m_Started
  /\ getNumPacketBytes(PES_Assembler) = 0

\* The frame read last is a unit start of the target PID with payload that
\* does not begin with 0x000001
BadStartAbsorbed ==
  /\ TargetAbsorbed
  /\ F_PUSI(TS_PacketBuffer) = 1
  /\ F_HasPayload(TS_PacketBuffer)
  /\ ~F_ValidStart(TS_PacketBuffer)

BadStart_LostKeepsBuffer ==
  /\ BadStartAbsorbed
  /\ seq.prev = AssemblingStarted /\ seq.step = 2
  /\ result = StreamPackedLost
  /\ ~PES_Assembler.m_Started
  /\ getNumPacketBytes(PES_Assembler) = 184

Buffer_KeptByStartWithoutPayload ==
  /\ TargetAbsorbed
  /\ F_PUSI(TS_PacketBuffer) = 1 /\ ~F_HasPayload(TS_PacketBuffer)
  /\ result = AssemblingContinue
  /\ getNumPacketBytes(PES_Assembler) = 368

\* The step absorbs a continuation packet with payload and the expected
\* counter, the last target-PID packet having got AssemblingFinished
ContinuesFinishedUnit ==
  /\ seq.res = AssemblingFinished
  /\ AbsorbsTarget /\ PassesContinuity
  /\ F_PUSI(TS_PacketBuffer') = 0
  /\ F_HasPayload(TS_PacketBuffer')

C28_ResultAgreesWithFlag ==
  /\ [](/\ result \in {AssemblingStarted, AssemblingContinue, AssemblingFinished}
             => PES_Assembler.m_Started
        /\ result = StreamPackedLost => ~PES_Assembler.m_Started)
  /\ [][(~PES_Assembler.m_Started /\ PES_Assembler'.m_Started)
          => /\ AbsorbsTarget
             /\ F_PUSI(TS_PacketBuffer') = 1
             /\ F_HasPayload(TS_PacketBuffer')
             /\ F_ValidStart(TS_PacketBuffer')
             /\ result' \in {AssemblingStarted, AssemblingFinished}]_vars
  /\ [][(~PES_Assembler.m_Started /\ AbsorbsTarget /\ F_PUSI(TS_PacketBuffer') = 0)
          => /\ result' = StreamPackedLost
             /\ ~PES_Assembler'.m_Started
             /\ PES_Assembler'.m_Buffer = PES_Assembler.m_Buffer
             /\ PES_Assembler'.m_BufferData = PES_Assembler.m_BufferData
             /\ PES_Assembler'.m_BufferSize = PES_Assembler.m_BufferSize
             /\ getNumPacketBytes(PES_Assembler')
                  = getNumPacketBytes(PES_Assembler)]_vars

\* A unit of 184 bytes was lost at a skipped counter; the continuation with
\* payload that came next got StreamPackedLost too and the buffer still
\* holds the 184 bytes
C28_Witness ==
  /\ TargetAbsorbed
  /\ seq.n = 3 /\ seq.lost = 2
  /\ seq.prev = StreamPackedLost /\ result = StreamPackedLost
  /\ F_PUSI(TS_PacketBuffer) = 0 /\ F_HasPayload(TS_PacketBuffer)
  /\ seq.step = 1
  /\ ~PES_Assembler.m_Started
  /\ getNumPacketBytes(PES_Assembler) = 184

\* ------------------------------------------------------------------------
\* Properties of the transport header parser
\* ------------------------------------------------------------------------
\* C9: after Reset(), Parse() of a frame whose first byte is not 0x47
\* returns a negative result and every field but the sync byte is zero.
C9_BadSyncLeavesReset ==
  (TS_PacketId >= 1 /\ B(TS_PacketBuffer, 0) # 71)
    => /\ headerResult < 0
       /\ TS_PacketHeader.m_SB = B(TS_PacketBuffer, 0)
       /\ TS_PacketHeader.m_E = 0
       /\ TS_PacketHeader.m_S = 0
       /\ TS_PacketHeader.m_T = 0
       /\ TS_PacketHeader.m_PID = 0
       /\ TS_PacketHeader.m_TSC = 0
       /\ TS_PacketHeader.m_AFC = 0
       /\ TS_PacketHeader.m_CC = 0

\* A frame with first byte 0x48 and the other header bytes not zero was
\* refused, after a frame with an adaptation field had been parsed
C9_Witness ==
  /\ TS_PacketId >= 2
  /\ B(TS_PacketBuffer, 0) = 72
  /\ B(TS_PacketBuffer, 1) # 0 /\ B(TS_PacketBuffer, 3) # 0
  /\ headerResult = NOT_VALID
  /\ ~TS_AdaptationField.m_Buffer.null

\* C10: Parse() of a frame whose first byte is 0x47 returns 4 and sets the
\* fields to the bits of bytes 1..3: error = bit 7 of byte 1, unit start =
\* bit 6, priority = bit 5, PID = (low 5 bits of byte 1) * 256 + byte 2,
\* scrambling = bits 7-6 of byte 3, adaptation field control = bits 5-4,
\* continuity counter = low 4 bits.
C10_FieldsBitExact ==
  (TS_PacketId >= 1 /\ B(TS_PacketBuffer, 0) = 71)
    => /\ headerResult = 4
       /\ TS_PacketHeader.m_SB = 71
       /\ TS_PacketHeader.m_E = B(TS_PacketBuffer, 1) \div 128
       /\ TS_PacketHeader.m_S = (B(TS_PacketBuffer, 1) \div 64) % 2
       /\ TS_PacketHeader.m_T = (B(TS_PacketBuffer, 1) \div 32) % 2
       /\ TS_PacketHeader.m_PID
            = (B(TS_PacketBuffer, 1) % 32) * 256 + B(TS_PacketBuffer, 2)
       /\ TS_PacketHeader.m_PID \in 0..8191
       /\ TS_PacketHeader.m_TSC = B(TS_PacketBuffer, 3) \div 64
       /\ TS_PacketHeader.m_AFC = (B(TS_PacketBuffer, 3) \div 16) % 4
       /\ TS_PacketHeader.m_CC = B(TS_PacketBuffer, 3) % 16

\* The header 47 FF FF A5 was parsed: the largest PID, scrambling 2,
\* adaptation field control 2, counter 5
C10_Witness ==
  /\ headerResult = TS_HeaderLength
  /\ TS_PacketBuffer[2] = 255 /\ TS_PacketBuffer[4] = 165
  /\ TS_PacketHeader.m_PID = 8191
  /\ TS_PacketHeader.m_E = 1 /\ TS_PacketHeader.m_S = 1 /\ TS_PacketHeader.m_T = 1
  /\ TS_PacketHeader.m_TSC = 2 /\ TS_PacketHeader.m_AFC = 2 /\ TS_PacketHeader.m_CC = 5

\* ------------------------------------------------------------------------
\* Properties of the adaptation field parser
\* ------------------------------------------------------------------------
\* The frame read last has an adaptation field that Parse() accepted
AF_Parsed ==
  /\ TS_PacketId >= 1
  /\ afResult.called
  /\ afResult.ret = B(TS_PacketBuffer, 4) + 1

\* The PCR flag of the frame read last
AF_PCRFlag == (B(TS_PacketBuffer, 5) \div 16) % 2 = 1

\* base * 300 + extension of the six bytes after the flags byte of the frame
\* read last, by arithmetic: the base is bytes 0..3 and the top bit of byte
\* 4, the extension the low bit of byte 4 and byte 5
AF_ExpectedPCR ==
  LET b(i) == B(TS_PacketBuffer, 6 + i)
      base == << (b(4) \div 128) + b(3) * 2 + (b(2) % 128) * 512,
                 (b(2) \div 128) + b(1) * 2 + (b(0) % 128) * 512,
                 b(0) \div 128,
                 0 >>
  IN  U64Add(U64Mul(base, 300), U64((b(4) % 2) * 256 + b(5)))

\* C5 as stated: with the PCR flag set and a length of 7 or more, getPCR()
\* is base * 300 + extension of the 6 bytes after the flags byte, and with
\* no other flag getStuffingBytes() is the length - 7.
C5_PCRFromLength7 ==
  (AF_Parsed /\ AF_PCRFlag /\ B(TS_PacketBuffer, 4) >= 7)
    => /\ getPCR(TS_AdaptationField) = AF_ExpectedPCR
       /\ B(TS_PacketBuffer, 5) = 16
            => getStuffingBytes(TS_AdaptationField, TS_PacketBuffer, 0)
                 = B(TS_PacketBuffer, 4) - 7

\* What the code does: the PCR is decoded from a length of 8 on, and with
\* length 7 getPCR() is 0; getStuffingBytes() is the length - 7 in both cases
AF_PCRFromLength8 ==
  (AF_Parsed /\ AF_PCRFlag /\ B(TS_PacketBuffer, 4) >= 7)
    => /\ getPCR(TS_AdaptationField)
            = IF B(TS_PacketBuffer, 4) >= 8 THEN AF_ExpectedPCR ELSE U64Zero
       /\ B(TS_PacketBuffer, 5) = 16
            => getStuffingBytes(TS_AdaptationField, TS_PacketBuffer, 0)
                 = B(TS_PacketBuffer, 4) - 7

\* Reset() and Parse() of the frame read last, on objects whose members
\* are all zero
FreshHeader ==
  xTS_PacketHeader_Parse(xTS_PacketHeader_Reset(xTS_PacketHeader_Uninit),
                         TS_PacketBuffer, Ptr(0), 0)

FreshAF ==
  xTS_AdaptationField_Parse(xTS_AdaptationField_Reset(xTS_AdaptationField_Uninit(0)),
                            TS_PacketBuffer, Ptr(TS_HeaderLength),
                            TS_PacketHeader.m_AFC, 0)

FreshPESH ==
  xPES_PacketHeader_Parse(xPES_PacketHeader_Reset(xPES_Assembler_New.m_PESH),
                          TS_PacketBuffer, Ptr(F_PayloadOffset(TS_PacketBuffer)), 0)

\* The frame read last was a unit start of the target PID with payload:
\* AbsorbPacket has reset and parsed the PES header
PESH_Parsed ==
  /\ TargetAbsorbed
  /\ F_PUSI(TS_PacketBuffer) = 1
  /\ F_HasPayload(TS_PacketBuffer)
  /\ result \in {AssemblingStarted, AssemblingFinished, UnexpectedPID}

\* C8 as stated: Reset() and Parse() of an input leave each of the three
\* parser objects with the members and the return value they give on an
\* object that was all zero, whatever the object held before, and
\* getStuffingBytes() reports the same.
C8_ResetParseSame ==
  TS_PacketId >= 1
    => /\ TS_PacketHeader = FreshHeader.self /\ headerResult = FreshHeader.ret
       /\ afResult.called
            => /\ TS_AdaptationField = FreshAF.self
               /\ afResult.ret = FreshAF.ret
               /\ getStuffingBytes(TS_AdaptationField, TS_PacketBuffer, 0)
                    = getStuffingBytes(FreshAF.self, TS_PacketBuffer, 0)
       /\ PESH_Parsed => PES_Assembler.m_PESH = FreshPESH.self

\* What the code does: the three members of the adaptation field that
\* Reset() leaves alone may differ when Parse() returns before it clears
\* them; every other member, the return values and getStuffingBytes() are
\* the same
AF_SameButUnresetMembers ==
  TS_PacketId >= 1
    => /\ TS_PacketHeader = FreshHeader.self /\ headerResult = FreshHeader.ret
       /\ afResult.called
            => /\ [TS_AdaptationField EXCEPT
                     !.m_PrivateDataLength = 0, !.m_ExtensionLength = 0,
                     !.m_SplicingPointOffset = 0]
                    = [FreshAF.self EXCEPT
                         !.m_PrivateDataLength = 0, !.m_ExtensionLength = 0,
                         !.m_SplicingPointOffset = 0]
               /\ afResult.ret >= 0 => TS_AdaptationField = FreshAF.self
               /\ afResult.ret = FreshAF.ret
               /\ getStuffingBytes(TS_AdaptationField, TS_PacketBuffer, 0)
                    = getStuffingBytes(FreshAF.self, TS_PacketBuffer, 0)
       /\ PESH_Parsed => PES_Assembler.m_PESH = FreshPESH.self

\* C12: for an adaptation field with control 2 or 3, a length byte L >= 1
\* and a flags byte of 0x00, getStuffingBytes() returns L - 1.
C12_StuffingNoFlags ==
  (TS_PacketId >= 1 /\ afResult.called
     /\ B(TS_PacketBuffer, 4) >= 1 /\ B(TS_PacketBuffer, 5) = 0)
    => \A junk \in JunkBytes :
         getStuffingBytes(TS_AdaptationField, TS_PacketBuffer, junk)
           = B(TS_PacketBuffer, 4) - 1

\* An adaptation field of length 177 without flags was parsed: 176 stuffing
\* bytes
C12_Witness ==
  /\ afResult.called /\ afResult.ret = 178
  /\ TS_AdaptationField.m_AFC = 3
  /\ B(TS_PacketBuffer, 4) = 177 /\ B(TS_PacketBuffer, 5) = 0
  /\ getStuffingBytes(TS_AdaptationField, TS_PacketBuffer, 0) = 176

\* C14: Parse() with a non-null buffer returns an error exactly when the
\* control value is 3 and the length byte exceeds 183, or the control value
\* is 2 and the length byte exceeds 184; for control 2 or 3 and a length in
\* range it returns the length + 1; for control 0 or 1 it sets the length
\* to 0 and returns 0.
C14_LengthLimits ==
  (TS_PacketId >= 1 /\ afResult.called)
    => /\ afResult.ret < 0
            <=> \/ F_AFC(TS_PacketBuffer) = 3 /\ B(TS_PacketBuffer, 4) > 183
                \/ F_AFC(TS_PacketBuffer) = 2 /\ B(TS_PacketBuffer, 4) > 184
       /\ (F_AFC(TS_PacketBuffer) \in {2, 3} /\ afResult.ret >= 0)
            => /\ afResult.ret = B(TS_PacketBuffer, 4) + 1
               /\ TS_AdaptationField.m_Len = B(TS_PacketBuffer, 4)
       /\ F_AFC(TS_PacketBuffer) \in {0, 1}
            => /\ afResult.ret = 0
               /\ TS_AdaptationField.m_Len = 0

\* An adaptation field of length 184 was accepted with control 2
C14_Witness ==
  /\ afResult.called /\ afResult.ret = 185
  /\ F_AFC(TS_PacketBuffer) = 2
  /\ TS_AdaptationField.m_Len = 184

\* Control 1: the length byte 184 is not read, the length is 0
AF_NoFieldForControl1 ==
  /\ afResult.called /\ afResult.ret = 0
  /\ F_AFC(TS_PacketBuffer) = 1 /\ B(TS_PacketBuffer, 4) = 184
  /\ TS_AdaptationField.m_Len = 0 /\ TS_AdaptationField.m_AFC = 1

\* Flag k (16 PCR, 8 OPCR, 4 splice, 2 private data, 1 extension) of the
\* adaptation field of the frame read last: the bit of the flags byte when
\* Parse() read it, else 0
AF_Flag(k) ==
  IF F_AFC(TS_PacketBuffer) \in {2, 3} /\ afResult.called /\ afResult.ret >= 2
  THEN (B(TS_PacketBuffer, 5) \div k) % 2
  ELSE 0

\* The bytes of the flags byte and of the fixed-size fields the flags announce
AF_FixedBytes == 1 + 6 * AF_Flag(16) + 6 * AF_Flag(8) + AF_Flag(4)

\* The private data and the extension count when their flag is set and their
\* length byte, at the offset after the fields before them, lies in the
\* field: 1 + the length that byte holds
AF_PrivateBytes ==
  IF AF_Flag(2) = 1 /\ TS_AdaptationField.m_Len >= 1 + AF_FixedBytes
  THEN 1 + B(TS_PacketBuffer, TS_HeaderLength + 1 + AF_FixedBytes)
  ELSE 0

AF_ExtensionOffset ==
  1 + AF_FixedBytes
    + (IF AF_Flag(2) = 1 THEN 1 + TS_AdaptationField.m_PrivateDataLength ELSE 0)

AF_ExtensionBytes(junk) ==
  IF AF_Flag(1) = 1 /\ TS_AdaptationField.m_Len >= AF_ExtensionOffset
  THEN 1 + At(TS_PacketBuffer, Ptr(TS_HeaderLength), AF_ExtensionOffset, junk)
  ELSE 0

AF_UsedBytes(junk) == AF_FixedBytes + AF_PrivateBytes + AF_ExtensionBytes(junk)

\* getStuffingBytes() is 0 without adaptation field or with length 0, else
\* the length - the used bytes, or 0 if that is negative; it lies in
\* 0..length - 1
AF_StuffingIsRemainder(junk) ==
  LET len == TS_AdaptationField.m_Len
      stuffing == getStuffingBytes(TS_AdaptationField, TS_PacketBuffer, junk)
  IN  IF TS_AdaptationField.m_AFC \notin {2, 3} \/ len = 0
      THEN stuffing = 0
      ELSE /\ stuffing = Max(0, len - AF_UsedBytes(junk))
           /\ stuffing \in 0..(len - 1)

\* C25 as stated: getStuffingBytes() is 0 when the control value is not 2
\* or 3 or the length is 0, else max(0, length - used), used being 1 + 6
\* per PCR/OPCR flag + 1 for the splice flag + 1 + the prefixed length for
\* the private data and for the extension; it lies in 0..length - 1, and
\* used + stuffing never exceeds the length.
C25_UsedPlusStuffingInLength ==
  \A junk \in JunkBytes :
    /\ AF_StuffingIsRemainder(junk)
    /\ (TS_AdaptationField.m_AFC \in {2, 3} /\ TS_AdaptationField.m_Len >= 1)
         => AF_UsedBytes(junk)
              + getStuffingBytes(TS_AdaptationField, TS_PacketBuffer, junk)
              <= TS_AdaptationField.m_Len

\* C25 amended: the same result; used + stuffing is the length when the
\* used bytes do not exceed the length, and when they exceed it (the flags
\* announce fields that the length has no room for) the stuffing is 0.
C25_StuffingClamped ==
  \A junk \in JunkBytes :
    /\ AF_StuffingIsRemainder(junk)
    /\ (TS_AdaptationField.m_AFC \in {2, 3} /\ TS_AdaptationField.m_Len >= 1)
         => IF AF_UsedBytes(junk) <= TS_AdaptationField.m_Len
            THEN AF_UsedBytes(junk)
                   + getStuffingBytes(TS_AdaptationField, TS_PacketBuffer, junk)
                   = TS_AdaptationField.m_Len
            ELSE getStuffingBytes(TS_AdaptationField, TS_PacketBuffer, junk) = 0

\* A field of 183 bytes with every optional field was parsed: 19 bytes are
\* used, 164 are stuffing
C25_Witness ==
  /\ afResult.called /\ afResult.ret = 184
  /\ B(TS_PacketBuffer, 5) = 31
  /\ AF_UsedBytes(0) = 19
  /\ getStuffingBytes(TS_AdaptationField, TS_PacketBuffer, 0) = 164

\* A field of 1 byte with the PCR flag was parsed: 7 bytes count as used,
\* the stuffing is 0
AF_UsedOverLength ==
  /\ afResult.called /\ afResult.ret = 2
  /\ TS_AdaptationField.m_Len = 1
  /\ AF_UsedBytes(0) = 7
  /\ getStuffingBytes(TS_AdaptationField, TS_PacketBuffer, 0) = 0

\* The 6-byte clock field at byte o of frame f, by arithmetic.  The base as
\* 33 bits: bytes 0..3 and the top bit of byte 4
F_ClockBase33(f, o) ==
  << (B(f, o + 4) \div 128) + B(f, o + 3) * 2 + (B(f, o + 2) % 128) * 512,
     (B(f, o + 2) \div 128) + B(f, o + 1) * 2 + (B(f, o) % 128) * 512,
     B(f, o) \div 128,
     0 >>

\* The base as 39 bits: bytes 0..3 and the top 7 bits of byte 4
F_ClockBase39(f, o) ==
  << (B(f, o + 4) \div 2) + B(f, o + 3) * 128 + (B(f, o + 2) % 2) * 32768,
     (B(f, o + 2) \div 2) + B(f, o + 1) * 128 + (B(f, o) % 2) * 32768,
     B(f, o) \div 2,
     0 >>

\* The extension: the low bit of byte 4 and byte 5
F_ClockExtension(f, o) == (B(f, o + 4) % 2) * 256 + B(f, o + 5)

\* The bits that x * m and x + y lose beyond bit 63
U64MulCarry(x, m) ==
  (x[4] * m + ((x[3] * m + ((x[2] * m + ((x[1] * m) \div LimbBase)) \div LimbBase))
     \div LimbBase)) \div LimbBase

U64AddCarry(x, y) ==
  (x[4] + y[4] + ((x[3] + y[3] + ((x[2] + y[2] + ((x[1] + y[1]) \div LimbBase))
     \div LimbBase)) \div LimbBase)) \div LimbBase

\* base * 300 + extension fits 64 bits and is the value v
ClockValueExact(v, base, ext) ==
  /\ U64MulCarry(base, 300) = 0
  /\ U64AddCarry(U64Mul(base, 300), U64(ext)) = 0
  /\ v = U64Add(U64Mul(base, 300), U64(ext))

\* Parse() has decoded the PCR of the frame read last: the flag is set and
\* the length is 8 or more; the OPCR: its flag is set and 6 bytes of the
\* length follow the fields before it
AF_PCRDecoded == AF_Flag(16) = 1 /\ TS_AdaptationField.m_Len >= 8

AF_OPCROffset == IF AF_PCRDecoded THEN 12 ELSE 6

AF_OPCRDecoded ==
  AF_Flag(8) = 1 /\ TS_AdaptationField.m_Len >= AF_OPCROffset - TS_HeaderLength + 6

\* The clocks are as decoded from a base of bits bits
AF_ClocksDecoded(pcrBase, opcrBase) ==
  /\ AF_PCRDecoded
       => /\ TS_AdaptationField.m_PCR_base = pcrBase
          /\ Below2To33(TS_AdaptationField.m_PCR_base)
          /\ TS_AdaptationField.m_PCR_extension = F_ClockExtension(TS_PacketBuffer, 6)
          /\ TS_AdaptationField.m_PCR_extension < 512
          /\ ClockValueExact(getPCR(TS_AdaptationField), pcrBase,
                             F_ClockExtension(TS_PacketBuffer, 6))
  /\ AF_OPCRDecoded
       => /\ TS_AdaptationField.m_OPCR_base = opcrBase
          /\ Below2To33(TS_AdaptationField.m_OPCR_base)
          /\ TS_AdaptationField.m_OPCR_extension
               = F_ClockExtension(TS_PacketBuffer, AF_OPCROffset)
          /\ TS_AdaptationField.m_OPCR_extension < 512
          /\ ClockValueExact(getOPCR(TS_AdaptationField), opcrBase,
                             F_ClockExtension(TS_PacketBuffer, AF_OPCROffset))

AF_Accepted ==
  /\ afResult.called /\ afResult.ret >= 1
  /\ F_AFC(TS_PacketBuffer) \in {2, 3}

\* C29: for a control value and a length that Parse() accepts (control 3
\* and a length up to 183, control 2 and a length up to 184), every byte that
\* Parse() and a later getStuffingBytes() read lies in the 188-byte frame:
\* its index in the buffer passed to Parse(), the frame from byte 4 on, is
\* at most 183.
C29_ReadsInsideFrame ==
  AF_Accepted
    => /\ \A junk \in JunkBytes :
            xTS_AdaptationField_Parse_ReadsInside(TS_AdaptationField, TS_PacketBuffer,
                                                  Ptr(TS_HeaderLength), junk)
       /\ \A i \in getStuffingBytes_Reads(TS_AdaptationField) :
            TS_AdaptationField.m_Buffer.off + i < TS_PacketLength

\* What the code does: the reads of Parse() lie in the frame; those of
\* getStuffingBytes() do but for the extension length byte at index 184,
\* read when the control value is 2, the length 184 and the private data
\* ends with the field
AF_ReadsInsideButLastExtension ==
  AF_Accepted
    => /\ \A junk \in JunkBytes :
            xTS_AdaptationField_Parse_ReadsInside(TS_AdaptationField, TS_PacketBuffer,
                                                  Ptr(TS_HeaderLength), junk)
       /\ \A i \in getStuffingBytes_Reads(TS_AdaptationField) :
            \/ TS_AdaptationField.m_Buffer.off + i < TS_PacketLength
            \/ /\ i = 184
               /\ TS_AdaptationField.m_AFC = 2 /\ TS_AdaptationField.m_Len = 184
               /\ TS_AdaptationField.m_TP = 1 /\ TS_AdaptationField.m_EX = 1

\* getStuffingBytes() reads the byte after the frame as the extension
\* length; the field is used up without it and the result is 0 either way
AF_ReadsByteAfterFrame ==
  /\ AF_Accepted
  /\ TS_AdaptationField.m_Len = 184
  /\ 184 \in getStuffingBytes_Reads(TS_AdaptationField)
  /\ getStuffingBytes(TS_AdaptationField, TS_PacketBuffer, 0) = 0
  /\ getStuffingBytes(TS_AdaptationField, TS_PacketBuffer, 255) = 0

\* Control 3, length 183: the extension length byte is the last of the frame
AF_ExtensionAtLastByte ==
  /\ AF_Accepted
  /\ TS_AdaptationField.m_Len = 183
  /\ 183 \in getStuffingBytes_Reads(TS_AdaptationField)

\* ------------------------------------------------------------------------
\* Properties of the PES header parser
\* ------------------------------------------------------------------------
\* C11: a PES header with an audio or video stream id, a packet length of 3
\* or more and PTS/DTS flags 0b11, holding the 33-bit values p and d in the
\* 5-byte layout at offsets 9 and 14, is parsed to getPTS() = p and
\* getDTS() = d whatever the marker bits and the four top bits of the
\* fields are; the decoded values are below 2^33.
C11_TimeStampsRoundTrip ==
  pesResult.called
    => /\ Below2To33(getPTS(PES_Assembler.m_PESH))
       /\ Below2To33(getDTS(PES_Assembler.m_PESH))
       /\ \A sid \in {192, 239}, p \in PTSValues, d \in DTSValues,
             top \in TopBits, mk \in MarkerBits :
             TS_PacketBuffer = TimeStampFrame(sid, p, d, top, mk)
               => /\ pesResult.ret = 19
                  /\ hasPTS(PES_Assembler.m_PESH) /\ hasDTS(PES_Assembler.m_PESH)
                  /\ getPTS(PES_Assembler.m_PESH) = p
                  /\ getDTS(PES_Assembler.m_PESH) = d

\* PTS 2^33 - 1 and DTS 0x0FEDCBA98 were decoded from fields whose four top
\* bits are all set and whose marker bits are clear
C11_Witness ==
  /\ pesResult.called
  /\ TS_PacketBuffer
       = TimeStampFrame(239, <<65535, 65535, 1, 0>>, <<47768, 65244, 0, 0>>, 15, 0)
  /\ getPTS(PES_Assembler.m_PESH) = <<65535, 65535, 1, 0>>
  /\ getDTS(PES_Assembler.m_PESH) = <<47768, 65244, 0, 0>>

PESH_ShortExtended ==
  /\ pesResult.called /\ pesResult.ret = 6
  /\ hasOptionalHeader(PES_Assembler.m_PESH)
  /\ getPacketLength(PES_Assembler.m_PESH) = 2

\* The 33-bit value of the 5-byte field at offset o of the PES header of
\* frame f, by arithmetic: bits 3-1 of byte 0, byte 1, bits 7-1 of byte 2,
\* byte 3, bits 7-1 of byte 4
F_TimeStamp(f, o) ==
  LET b(i) == B(f, TS_HeaderLength + o + i)
      hi == (b(0) \div 2) % 8
      mid == b(2) \div 2
  IN  << (b(4) \div 2) + b(3) * 128 + (mid % 2) * 32768,
         (mid \div 2) + b(1) * 64 + (hi % 4) * 16384,
         hi \div 4,
         0 >>

\* The PTS/DTS flags Parse has read from the frame read last: bits 7-6 of
\* byte 7 when the extended header was read, else 0
F_PTSDTSFlags ==
  IF pesResult.ret >= 0 /\ hasOptionalHeader(PES_Assembler.m_PESH)
     /\ getPacketLength(PES_Assembler.m_PESH) >= 3
  THEN B(TS_PacketBuffer, TS_HeaderLength + 7) \div 64
  ELSE 0

\* C16: after Parse, hasDTS() implies hasPTS(): hasDTS() holds only when the
\* PTS/DTS flags are 0b11 and a DTS is decoded only then; for flags 0b10
\* the PTS is decoded and getDTS() stays 0; for flags 0b00 and 0b01 neither
\* is decoded.
C16_DTSOnlyWithPTS ==
  pesResult.called
    => /\ hasDTS(PES_Assembler.m_PESH) => hasPTS(PES_Assembler.m_PESH)
       /\ hasDTS(PES_Assembler.m_PESH) <=> F_PTSDTSFlags = 3
       /\ hasPTS(PES_Assembler.m_PESH) <=> F_PTSDTSFlags \in {2, 3}
       /\ getPTS(PES_Assembler.m_PESH)
            = IF F_PTSDTSFlags \in {2, 3} THEN F_TimeStamp(TS_PacketBuffer, 9)
              ELSE U64Zero
       /\ getDTS(PES_Assembler.m_PESH)
            = IF F_PTSDTSFlags = 3 THEN F_TimeStamp(TS_PacketBuffer, 14)
              ELSE U64Zero

\* Flags 0b10: the PTS 0x123456789 was decoded and the DTS is 0 although
\* the bytes after the PTS hold one
C16_Witness ==
  /\ pesResult.called
  /\ F_PTSDTSFlags = 2
  /\ hasPTS(PES_Assembler.m_PESH) /\ ~hasDTS(PES_Assembler.m_PESH)
  /\ getPTS(PES_Assembler.m_PESH) = <<26505, 9029, 1, 0>>
  /\ getDTS(PES_Assembler.m_PESH) = U64Zero
  /\ F_TimeStamp(TS_PacketBuffer, 14) # U64Zero

\* Flags 0b01: neither time stamp was decoded
PESH_FlagsDTSOnly ==
  /\ pesResult.called
  /\ F_PTSDTSFlags = 1
  /\ getPTS(PES_Assembler.m_PESH) = U64Zero
  /\ getDTS(PES_Assembler.m_PESH) = U64Zero
  /\ F_TimeStamp(TS_PacketBuffer, 9) # U64Zero

\* The members Parse writes when it reads the extended header are those
\* Reset() left
PESH_NoExtensionDecoded ==
  [PES_Assembler.m_PESH EXCEPT !.m_PacketStartCodePrefix = 0, !.m_StreamId = 0,
                               !.m_PacketLength = 0, !.m_hasHeaderExtension = FALSE]
    = xPES_PacketHeader_Reset(PES_Assembler.m_PESH)

\* C23: after Reset() and a successful Parse() the extended header is
\* marked present if and only if the stream id, byte 3 of the header, lies
\* in 0xC0..0xDF or in 0xE0..0xEF; for every other stream id the header
\* length is 6 and neither flags nor time stamps are decoded.
C23_ExtensionIffAudioVideo ==
  (pesResult.called /\ pesResult.ret >= 0)
    => /\ PES_Assembler.m_PESH.m_StreamId = B(TS_PacketBuffer, TS_HeaderLength + 3)
       /\ hasOptionalHeader(PES_Assembler.m_PESH)
            <=> \/ B(TS_PacketBuffer, TS_HeaderLength + 3) \in 192..223
                \/ B(TS_PacketBuffer, TS_HeaderLength + 3) \in 224..239
       /\ B(TS_PacketBuffer, TS_HeaderLength + 3) \notin 192..239
            => /\ pesResult.ret = 6
               /\ getHeaderLength(PES_Assembler.m_PESH) = 6
               /\ ~hasPTS(PES_Assembler.m_PESH) /\ ~hasDTS(PES_Assembler.m_PESH)
               /\ getPTS(PES_Assembler.m_PESH) = U64Zero
               /\ getDTS(PES_Assembler.m_PESH) = U64Zero
               /\ PESH_NoExtensionDecoded

\* A header of private stream 1 (0xBD) with packet length 3, all flags set
\* and 10 bytes of header data was parsed: 6 bytes, nothing decoded
C23_Witness ==
  /\ pesResult.called /\ pesResult.ret = 6
  /\ B(TS_PacketBuffer, TS_HeaderLength + 3) = 189
  /\ getPacketLength(PES_Assembler.m_PESH) = 3
  /\ B(TS_PacketBuffer, TS_HeaderLength + 7) = 255
  /\ B(TS_PacketBuffer, TS_HeaderLength + 8) = 10
  /\ ~hasOptionalHeader(PES_Assembler.m_PESH)
  /\ PESH_NoExtensionDecoded

\* The last audio id 0xDF and the first video id 0xE0 have the extended
\* header, the id after the video range, 0xF0, has not
PESH_LastAudioId ==
  /\ pesResult.called /\ pesResult.ret = 19
  /\ B(TS_PacketBuffer, TS_HeaderLength + 3) = 223
  /\ hasOptionalHeader(PES_Assembler.m_PESH)

PESH_AfterVideoRange ==
  /\ pesResult.called /\ pesResult.ret = 6
  /\ B(TS_PacketBuffer, TS_HeaderLength + 3) = 240
  /\ ~hasOptionalHeader(PES_Assembler.m_PESH)

\* The PES header of the frame read last begins with 0x000001 and declares
\* a packet length below 3
F_ShortPES ==
  /\ B(TS_PacketBuffer, TS_HeaderLength) = 0
  /\ B(TS_PacketBuffer, TS_HeaderLength + 1) = 0
  /\ B(TS_PacketBuffer, TS_HeaderLength + 2) = 1
  /\ B(TS_PacketBuffer, TS_HeaderLength + 4) * 256
       + B(TS_PacketBuffer, TS_HeaderLength + 5) < 3

\* C24: when the declared PES packet length is below 3 (0, the unbounded
\* length, included) Reset() and Parse() of a header with the start code
\* return 6 and decode no flags, no header data length, no PTS and no DTS:
\* hasPTS() and hasDTS() are false and getPTS() = getDTS() = 0 whatever
\* bytes follow the 6 basic bytes.
C24_ShortLengthBasicOnly ==
  (pesResult.called /\ F_ShortPES)
    => /\ pesResult.ret = 6
       /\ getHeaderLength(PES_Assembler.m_PESH) = 6
       /\ getPacketLength(PES_Assembler.m_PESH)
            = B(TS_PacketBuffer, TS_HeaderLength + 4) * 256
                + B(TS_PacketBuffer, TS_HeaderLength + 5)
       /\ getPESHeaderDataLength(PES_Assembler.m_PESH) = 0
       /\ ~hasPTS(PES_Assembler.m_PESH) /\ ~hasDTS(PES_Assembler.m_PESH)
       /\ getPTS(PES_Assembler.m_PESH) = U64Zero
       /\ getDTS(PES_Assembler.m_PESH) = U64Zero
       /\ PESH_NoExtensionDecoded

\* A video header of packet length 2 whose next bytes announce PTS and DTS
\* and hold two time stamps was parsed: 6 bytes, no time stamp
C24_Witness ==
  /\ pesResult.called /\ pesResult.ret = 6
  /\ F_ShortPES
  /\ B(TS_PacketBuffer, TS_HeaderLength + 3) = 224
  /\ getPacketLength(PES_Assembler.m_PESH) = 2
  /\ B(TS_PacketBuffer, TS_HeaderLength + 7) = 255
  /\ F_TimeStamp(TS_PacketBuffer, 9) # U64Zero
  /\ F_TimeStamp(TS_PacketBuffer, 14) # U64Zero
  /\ getPTS(PES_Assembler.m_PESH) = U64Zero
  /\ getDTS(PES_Assembler.m_PESH) = U64Zero

\* The same with the unbounded length 0, for an audio header
PESH_UnboundedBasicOnly ==
  /\ pesResult.called /\ pesResult.ret = 6
  /\ F_ShortPES
  /\ B(TS_PacketBuffer, TS_HeaderLength + 3) = 192
  /\ getPacketLength(PES_Assembler.m_PESH) = 0
  /\ B(TS_PacketBuffer, TS_HeaderLength + 7) = 255
  /\ ~hasPTS(PES_Assembler.m_PESH)

\* AbsorbPacket has parsed the PES header of the frame read last: a unit
\* start of the target PID with payload that passed the continuity check
UnitStartParsed ==
  /\ TargetAbsorbed
  /\ F_PUSI(TS_PacketBuffer) = 1
  /\ F_HasPayload(TS_PacketBuffer)
  /\ result # StreamPackedLost

\* C30: when AbsorbPacket parses the PES header of a unit-start packet, every
\* byte that xPES_PacketHeader::Parse reads (the 6 basic bytes, the 3 bytes
\* of the extended header, the 5 bytes of the PTS and of the DTS) lies in the
\* payload of the 188-byte frame, wherever from byte 4 to byte 187 the
\* payload begins, and the bytes read of PTS and DTS lie within the declared
\* header length 9 + header data length.
C30_HeaderReadsInsidePayload ==
  UnitStartParsed
    => \A i \in xPES_PacketHeader_Parse_Reads(PES_Assembler.m_PESH) :
         /\ F_PayloadOffset(TS_PacketBuffer) + i < TS_PacketLength
         /\ i >= 9 => i < 9 + PES_Assembler.m_PESH.m_PES_header_data_length

\* What the code does: Parse reads up to 19 bytes from the start of the
\* payload, whatever its size and the header data length; the reads lie in
\* the frame when the payload has 19 bytes or more
PESH_ReadsFirstNineteen ==
  UnitStartParsed
    => /\ xPES_PacketHeader_Parse_Reads(PES_Assembler.m_PESH) \subseteq 0..18
       /\ F_PayloadSize(TS_PacketBuffer) >= 19
            => \A i \in xPES_PacketHeader_Parse_Reads(PES_Assembler.m_PESH) :
                 F_PayloadOffset(TS_PacketBuffer) + i < TS_PacketLength

\* A payload of one byte: the prefix is read from it and from the two bytes
\* after the frame
PESH_PrefixAfterFrame ==
  /\ UnitStartParsed
  /\ F_PayloadOffset(TS_PacketBuffer) = 187
  /\ result = UnexpectedPID

\* A payload of 18 bytes: the last byte of the DTS is the byte after the
\* frame, and getDTS() differs with it
PESH_DTSAfterFrame ==
  /\ UnitStartParsed
  /\ F_PayloadSize(TS_PacketBuffer) = 18
  /\ 18 \in xPES_PacketHeader_Parse_Reads(PES_Assembler.m_PESH)
  /\ PES_Assembler.m_PESH.m_DTS[1] % 128 = 127

\* PTS and DTS are read from the 10 bytes after a header that declares no
\* header data
PESH_StampsOutsideHeader ==
  /\ UnitStartParsed
  /\ F_PayloadSize(TS_PacketBuffer) = 184
  /\ PES_Assembler.m_PESH.m_PES_header_data_length = 0
  /\ 18 \in xPES_PacketHeader_Parse_Reads(PES_Assembler.m_PESH)

====
